---------------------------- MODULE Spec2Model ----------------------------
(***************************************************************************)
(* azure2aws: the Azure AD SAML authentication flow interpreter            *)
(* (internal/provider/azuread) as a state machine.                         *)
(*                                                                         *)
(* One behaviour is one call of Client.Authenticate.  The server is the    *)
(* environment: every response body, JSON answer and transport failure is  *)
(* a nondeterministic choice.  A response body is kept as the things the   *)
(* code reads out of it: the marker substrings it contains, the embedded   *)
(* $Config object (absent, unparsable, or its fields) and the HTML form    *)
(* with its inputs.                                                        *)
(***************************************************************************)
EXTENDS Integers, Sequences, FiniteSets, TLC

(***************************************************************************)
(* Bounds of the model.                                                    *)
(***************************************************************************)
\* passes of the classifier loop of authenticate that are explored
MaxPasses == 2
\* end-challenge calls of one MFA exchange that are explored
MaxPolls == 3
\* inputs of one HTML form
MaxInputs == 2
\* User Proofs listed by one ConvergedTFA page
MaxProofs == 3

(***************************************************************************)
(* Program constants.                                                      *)
(***************************************************************************)
\* time.Sleep(2 * time.Second), in milliseconds
DefaultPollMs == 2000
\* time.Second, in milliseconds
SecondMs == 1000

BenignErrorCode == "50058"

MFAPhoneAppOTP == "PhoneAppOTP"
MFAPhoneAppNotification == "PhoneAppNotification"
MFAOneWaySMS == "OneWaySMS"
MFATwoWayVoiceMobile == "TwoWayVoiceMobile"

(***************************************************************************)
(* URLs.  A URL is absolute ("abs", starts with http), relative ("rel") or *)
(* the empty string ("none").                                              *)
(***************************************************************************)
URL(kind, id) == [kind |-> kind, id |-> id]
NoURL == URL("none", "")
\* the URL of the request that produced the current snapshot (res.Request.URL)
SelfURL == URL("abs", "self")
\* Client.baseURL and Client.appID, as NewClient stored them
baseURL == "https://account.activedirectory.windowsazure.com"
appID == "app"
\* startURL of authenticate
StartURL ==
    URL("abs", baseURL \o "/applications/redirecttofederatedapplication.aspx"
                       \o "?Operation=LinkedSignIn&applicationId=" \o appID)

fullURL(u) ==
    IF u.kind = "abs" THEN u
    ELSE IF u.kind = "none" THEN SelfURL
    ELSE URL("abs", u.id)

(***************************************************************************)
(* Login credentials (provider.LoginCredentials); NilCreds is a nil         *)
(* pointer.                                                                *)
(***************************************************************************)
NilCreds == [nil |-> TRUE, Username |-> "", Password |-> "", MFAToken |-> ""]
Creds(u, p, t) == [nil |-> FALSE, Username |-> u, Password |-> p, MFAToken |-> t]
CredSet ==
    {NilCreds} \cup
    {Creds(u, p, t) : u \in {"", "user"}, p \in {"", "pw"}, t \in {"", "123456"}}

(***************************************************************************)
(* Response bodies.                                                        *)
(***************************************************************************)
Markers == {"ConvergedSignIn", "ConvergedTFA", "KmsiInterrupt", "SAMLRequest"}
ErrorKey == "sErrorCode"

\* an <input>: a missing name attribute reads as "", a missing value as ""
Input(n, v, h) == [name |-> n, value |-> v, hidden |-> h]
NoForm == [present |-> FALSE, action |-> NoURL, inputs |-> <<>>]
Form(a, ins) == [present |-> TRUE, action |-> a, inputs |-> ins]

NoConfig == [state |-> "absent"]
BadConfig == [state |-> "invalid"]
\* the fields of ConvergedResponse the flow reads; g tags the page that
\* issued the tokens
Config(g, code, post, skip, proofs, intervals) ==
    [state |-> "ok",
     SFT |-> IF g = 1 THEN "ft1" ELSE "ft2",
     SCtx |-> IF g = 1 THEN "ctx1" ELSE "ctx2",
     Canary |-> IF g = 1 THEN "canary1" ELSE "canary2",
     APICanary |-> IF g = 1 THEN "apicanary1" ELSE "apicanary2",
     SessionID |-> IF g = 1 THEN "sid1" ELSE "sid2",
     SPOSTUsername |-> IF g = 1 THEN "postuser1" ELSE "postuser2",
     SFTName |-> "flowToken",
     URLPost |-> URL(post, IF g = 1 THEN "post1" ELSE "post2"),
     URLGetCredentialType |-> URL("abs", IF g = 1 THEN "gct1" ELSE "gct2"),
     URLBeginAuth |-> URL("abs", IF g = 1 THEN "begin1" ELSE "begin2"),
     URLEndAuth |-> URL("abs", IF g = 1 THEN "end1" ELSE "end2"),
     URLSkipMfaRegistration |-> skip,
     SErrorCode |-> code,
     SErrTxt |-> IF code = "" THEN "" ELSE "text of " \o code,
     ArrUserProofs |-> proofs,
     OPerAuthPollingInterval |-> intervals]

Page(text, cfg, form, loose) ==
    [text |-> text, cfg |-> cfg, form |-> form, loose |-> loose]
NoPage == Page({}, NoConfig, NoForm, <<>>)

\* sequences over S of length at most n
RECURSIVE SeqUpTo(_, _)
SeqUpTo(S, n) ==
    IF n = 0 THEN {<<>>}
    ELSE LET shorter == SeqUpTo(S, n - 1)
         IN  shorter \cup {Append(s, x) : s \in {t \in shorter : Len(t) = n - 1}, x \in S}

(***************************************************************************)
(* Content extractors.                                                     *)
(***************************************************************************)
\* all inputs of the document, in document order
DocInputs(p) == p.form.inputs \o p.loose

\* strings.Contains(resBodyStr, m)
Contains(p, m) ==
    \/ m \in p.text
    \/ m = ErrorKey /\ p.cfg.state = "ok" /\ p.cfg.SErrorCode # ""

\* unmarshalEmbeddedJSON: the error result
unmarshalFails(p) == p.cfg.state # "ok"

isHiddenForm(p) ==
    /\ p.form.present
    /\ \E i \in 1..Len(DocInputs(p)) :
          DocInputs(p)[i].hidden \/ DocInputs(p)[i].name = "SAMLResponse"

\* variant: the value of the last SAMLResponse input instead of the first
getSAMLAssertion_LastField(p) ==
    LET ins == DocInputs(p)
        hits == {i \in 1..Len(ins) : ins[i].name = "SAMLResponse"}
    IN  IF hits = {} THEN ""
        ELSE ins[CHOOSE i \in hits : \A j \in hits : i >= j].value

\* getSAMLAssertion: the value of the first SAMLResponse input, "" without one
getSAMLAssertion(p) ==
    LET ins == DocInputs(p)
        hits == {i \in 1..Len(ins) : ins[i].name = "SAMLResponse"}
    IN  IF hits = {} THEN ""
        ELSE ins[CHOOSE i \in hits : \A j \in hits : i <= j].value

\* url.Values.Set(name, value) on a set of name/value pairs
ValuesSet(vals, n, v) == {pr \in vals : pr[1] # n} \cup {<<n, v>>}

RECURSIVE collectInputs(_, _)
collectInputs(ins, vals) ==
    IF ins = <<>> THEN vals
    ELSE collectInputs(Tail(ins),
                       IF Head(ins).name # ""
                       THEN ValuesSet(vals, Head(ins).name, Head(ins).value)
                       ELSE vals)

\* parseFormData: the first form's named inputs and its action
parseFormData(p) ==
    [err |-> ~p.form.present,
     values |-> IF p.form.present THEN collectInputs(p.form.inputs, {}) ELSE {},
     action |-> p.form.action]

\* variant: the ConvergedTFA case tested before the ConvergedSignIn case
Classify_TFAFirst(p) ==
    IF Contains(p, "ConvergedTFA") THEN "ConvergedTFA"
    ELSE IF Contains(p, "ConvergedSignIn") THEN "ConvergedSignIn"
    ELSE IF Contains(p, "KmsiInterrupt") THEN "KmsiInterrupt"
    ELSE IF Contains(p, "SAMLRequest") THEN "SAMLRequest"
    ELSE IF isHiddenForm(p) THEN "HiddenForm"
    ELSE "default"

\* the switch of authenticate: the first matching case
Classify(p) ==
    IF Contains(p, "ConvergedSignIn") THEN "ConvergedSignIn"
    ELSE IF Contains(p, "ConvergedTFA") THEN "ConvergedTFA"
    ELSE IF Contains(p, "KmsiInterrupt") THEN "KmsiInterrupt"
    ELSE IF Contains(p, "SAMLRequest") THEN "SAMLRequest"
    ELSE IF isHiddenForm(p) THEN "HiddenForm"
    ELSE "default"

(***************************************************************************)
(* The pages, forms and answers the modelled server may send.              *)
(***************************************************************************)
ErrorCodes == {"", BenignErrorCode, "50126"}

RelayInput == Input("RelayState", "rs", TRUE)
FlowInputs ==
    {RelayInput,
     Input("RelayState", "", FALSE),
     Input("SAMLResponse", "", TRUE),
     Input("SAMLResponse", "assertion1", TRUE),
     Input("SAMLResponse", "assertion2", TRUE),
     Input("", "Submit", FALSE)}
FormActions == {NoURL, URL("abs", "action"), URL("rel", "action")}
FlowForms == {Form(a, ins) : a \in FormActions, ins \in SeqUpTo(FlowInputs, MaxInputs)}
FlowLoose == {<<>>, <<Input("SAMLResponse", "assertion2", TRUE)>>, <<Input("x", "1", TRUE)>>}

\* the ADFS pages a federation redirect may lead to
FedForms ==
    {NoForm,
     Form(NoURL, <<RelayInput>>),
     Form(URL("rel", "adfs"), <<>>),
     Form(URL("abs", "adfs/ls"), <<RelayInput, Input("UserName", "", FALSE)>>),
     Form(URL("abs", "adfs/oauth2"),
          <<Input("Password", "old", FALSE), Input("AuthMethod", "x", TRUE)>>)}
FederationURLs == {NoURL, URL("abs", "federation")}

BaseConfigs ==
    {Config(g, code, post, NoURL, <<>>, {}) :
        g \in 1..2, code \in ErrorCodes, post \in {"abs", "rel"}}

Proof(m, d) == [AuthMethodID |-> m, IsDefault |-> d]
FlowProofs ==
    {<<>>,
     <<Proof(MFAPhoneAppOTP, FALSE)>>,
     <<Proof(MFAPhoneAppNotification, FALSE)>>,
     <<Proof(MFAOneWaySMS, FALSE), Proof(MFAPhoneAppNotification, TRUE)>>}
FlowIntervals ==
    {{},
     {<<MFAPhoneAppNotification, 1000>>},
     {<<MFAPhoneAppNotification, 1500>>, <<MFAPhoneAppOTP, 3000>>}}
SkipURLs == {NoURL, URL("abs", "skipmfa")}
FlowTFAConfigs ==
    {Config(g, "", "abs", skip, proofs, iv) :
        g \in 1..2, skip \in SkipURLs, proofs \in FlowProofs, iv \in FlowIntervals}

MarkerPages ==
    {Page(text, cfg, form, <<>>) :
        text \in SUBSET (Markers \cup {ErrorKey}),
        cfg \in {NoConfig, BadConfig} \cup BaseConfigs,
        form \in {NoForm,
                  Form(URL("abs", "action"), <<Input("SAMLResponse", "assertion1", TRUE)>>)}}
TFAPages ==
    {Page(text, cfg, NoForm, <<>>) :
        text \in {{"ConvergedTFA"}, {"ConvergedTFA", "SAMLRequest"}},
        cfg \in FlowTFAConfigs}
FormPages ==
    {Page(text, NoConfig, form, loose) :
        text \in SUBSET {"SAMLRequest", ErrorKey},
        form \in FlowForms,
        loose \in FlowLoose}
FlowPages == MarkerPages \cup TFAPages \cup FormPages

(***************************************************************************)
(* Requests and results.                                                   *)
(***************************************************************************)
\* an HTTP request handed to HTTPClient.Do: what it carries, whether the
\* client follows redirects when it is sent, and the code place that sent it
Req(tag, method, url, body, follow) ==
    [tag |-> tag, method |-> method, url |-> url, body |-> body, follow |-> follow]

Err(step, kind, code, msg) == [step |-> step, kind |-> kind, code |-> code, msg |-> msg]
NoErr == Err("", "", "", "")

Result(a, e) == [assertion |-> a, err |-> e]
NoResult == Result("", NoErr)

\* HTTPClient.Do: a request to a URL that is not absolute fails in the
\* client; any other is answered or fails in transport
DoOutcomes(u) == IF u.kind = "abs" THEN {"ok", "error"} ELSE {"error"}

\* no request
NoReq == Req("", "", NoURL, {}, TRUE)

\* no command is running: the state is that of one call of Authenticate
NoCli == [cmd |-> "none"]

NoMFA ==
    [Success |-> FALSE, ErrCode |-> 0, Message |-> "", Retry |-> FALSE, AuthMethodID |-> "",
     Ctx |-> "", FlowToken |-> "", SessionID |-> "", Entropy |-> 0]

VARIABLES
    pc,              \* where Authenticate is: "call", "read", "top", "dispatch", "mfa", "done"
    creds,           \* the LoginCredentials argument
    res,             \* what res holds: "none", "net" (an unread response), "buf" (the snapshot again)
    snap,            \* resBodyStr of the current pass
    handler,         \* the case of the switch taken in the current pass
    sent,            \* the requests issued in the current pass, oldest first
    passes,          \* passes of the loop started so far
    out,             \* what Authenticate returned
    followRedirect,  \* HTTPClient.CheckRedirect = nil
    credTypeResp,    \* processConvergedSignIn: credTypeResp.Credentials.FederationRedirectURL
    mfaResp,         \* processMFA: mfaResp
    mfaIter,         \* processMFA: i
    endCalls,        \* processMFA: processMFAEndAuth calls made
    sleeps,          \* processMFA: time.Sleep calls made
    lastSleep,       \* processMFA: duration of the last time.Sleep, in milliseconds
    prompts,         \* processMFA: what each prompter.String call returned, oldest first
    hints,           \* processMFA: the approval notices printed, oldest first
    trail,           \* the cases taken by the earlier passes of the loop, oldest first
    netErr,          \* the request for which HTTPClient.Do returned an error, if any
    cli              \* the command that is running outside Authenticate, and its state

flowVars == <<pc, creds, res, snap, handler, sent, passes, out, followRedirect, credTypeResp,
              trail, netErr>>
mfaVars == <<mfaResp, mfaIter, endCalls, sleeps, lastSleep, prompts, hints>>
vars == <<flowVars, mfaVars, cli>>

MFAIdle ==
    /\ mfaResp = NoMFA
    /\ mfaIter = 0
    /\ endCalls = 0
    /\ sleeps = 0
    /\ lastSleep = 0
    /\ prompts = <<>>
    /\ hints = <<>>

MFAReset ==
    /\ mfaResp' = NoMFA
    /\ mfaIter' = 0
    /\ endCalls' = 0
    /\ sleeps' = 0
    /\ lastSleep' = 0
    /\ prompts' = <<>>
    /\ hints' = <<>>

Init ==
    /\ pc = "call"
    /\ creds \in CredSet
    /\ res = "none"
    /\ snap = NoPage
    /\ handler = "none"
    /\ sent = <<>>
    /\ passes = 0
    /\ out = NoResult
    /\ followRedirect = TRUE
    /\ credTypeResp = NoURL
    /\ trail = <<>>
    /\ netErr = NoReq
    /\ cli = NoCli
    /\ MFAIdle

\* return "", err
Fail(e) ==
    /\ pc' = "done"
    /\ out' = Result("", e)
    /\ res' = "none"
    /\ netErr' = netErr

\* return "", err where err wraps the error HTTPClient.Do returned for r
FailNet(e, r) ==
    /\ pc' = "done"
    /\ out' = Result("", e)
    /\ res' = "none"
    /\ netErr' = r

\* the handler returned (res, nil): the loop goes round
Continue ==
    /\ pc' = "read"
    /\ res' = "net"
    /\ out' = out
    /\ netErr' = netErr

\* variant: a request that failed is sent a second time before giving up
SendLast_RetryOnce(step, kind, reqs, r) ==
    \E o \in DoOutcomes(r.url) :
        IF o = "ok"
        THEN sent' = reqs \o <<r>> /\ Continue
        ELSE sent' = reqs \o <<r, r>> /\ FailNet(Err(step, kind, "", ""), r)

\* the handler ends with `return c.httpClient.Do(req)` (or wraps its error
\* as `kind`): the request is sent and the pass ends
SendLast(step, kind, reqs, r) ==
    /\ sent' = reqs \o <<r>>
    /\ \E o \in DoOutcomes(r.url) :
          IF o = "ok" THEN Continue ELSE FailNet(Err(step, kind, "", ""), r)

(***************************************************************************)
(* Client.Authenticate and the start of authenticate.                      *)
(***************************************************************************)
\* variant: the password is not validated
Authenticate_NoPasswordCheck ==
    /\ pc = "call"
    /\ UNCHANGED <<cli, creds, trail, snap, handler, passes, followRedirect, credTypeResp, mfaVars>>
    /\ IF creds.nil THEN
           /\ Fail(Err("Authenticate", "credentials cannot be nil", "", ""))
           /\ sent' = sent
       ELSE IF creds.Username = "" THEN
           /\ Fail(Err("Authenticate", "username is required", "", ""))
           /\ sent' = sent
       ELSE
           SendLast("start", "failed to start authentication", <<>>,
                    Req("start", "GET", StartURL, {}, followRedirect))

Authenticate ==
    /\ pc = "call"
    /\ UNCHANGED <<cli, creds, trail, snap, handler, passes, followRedirect, credTypeResp, mfaVars>>
    /\ IF creds.nil THEN
           /\ Fail(Err("Authenticate", "credentials cannot be nil", "", ""))
           /\ sent' = sent
       ELSE IF creds.Username = "" THEN
           /\ Fail(Err("Authenticate", "username is required", "", ""))
           /\ sent' = sent
       ELSE IF creds.Password = "" THEN
           /\ Fail(Err("Authenticate", "password is required", "", ""))
           /\ sent' = sent
       ELSE
           SendLast("start", "failed to start authentication", <<>>,
                    Req("start", "GET", StartURL, {}, followRedirect))

(***************************************************************************)
(* The loop of authenticate: the end of one pass (the handler's locals and *)
(* the requests of the pass are gone) and the top of the next,             *)
(* io.ReadAll(res.Body).                                                   *)
(***************************************************************************)
NextPass ==
    /\ pc = "read"
    /\ passes < MaxPasses
    /\ pc' = "top"
    /\ sent' = <<>>
    /\ handler' = "none"
    /\ MFAReset
    /\ snap' = IF res = "buf" THEN snap ELSE NoPage
    /\ credTypeResp' = NoURL
    /\ trail' = IF handler = "none" THEN trail ELSE Append(trail, handler)
    /\ UNCHANGED <<cli, creds, res, passes, out, followRedirect, netErr>>

ReadBody(pages) ==
    /\ pc = "top"
    /\ passes' = passes + 1
    /\ UNCHANGED <<cli, creds, trail, handler, sent, followRedirect, credTypeResp, mfaVars>>
    /\ IF res = "buf" THEN
           /\ snap' = snap
           /\ pc' = "dispatch"
           /\ UNCHANGED <<res, out, netErr>>
       ELSE
           \/ /\ snap' \in pages
              /\ pc' = "dispatch"
              /\ UNCHANGED <<res, out, netErr>>
           \/ /\ snap' = NoPage
              /\ Fail(Err("read", "failed to read response body", "", ""))

(***************************************************************************)
(* case c.isHiddenForm / reProcessForm, case SAMLRequest, default.         *)
(***************************************************************************)
\* variant: the missing-action error is returned without the step's name
reProcessForm_Unwrapped ==
    LET f == parseFormData(snap) IN
    IF f.err THEN
        /\ Fail(Err("form reprocessing", "failed to parse form", "", ""))
        /\ sent' = sent
    ELSE IF f.action = NoURL THEN
        /\ Fail(Err("", "form URL not found", "", ""))
        /\ sent' = sent
    ELSE
        SendLast("form reprocessing", "transport", sent,
                 Req("form", "POST", f.action, f.values, followRedirect))

reProcessForm ==
    LET f == parseFormData(snap) IN
    IF f.err THEN
        /\ Fail(Err("form reprocessing", "failed to parse form", "", ""))
        /\ sent' = sent
    ELSE IF f.action = NoURL THEN
        /\ Fail(Err("form reprocessing", "form URL not found", "", ""))
        /\ sent' = sent
    ELSE
        SendLast("form reprocessing", "transport", sent,
                 Req("form", "POST", f.action, f.values, followRedirect))

\* variant: the SAMLResponse value is returned without the test for ""
HiddenForm_NoEmptyCheck ==
    /\ pc = "dispatch"
    /\ Classify(snap) = "HiddenForm"
    /\ handler' = "HiddenForm"
    /\ UNCHANGED <<cli, creds, trail, snap, passes, followRedirect, credTypeResp, mfaVars>>
    /\ pc' = "done"
    /\ out' = Result(getSAMLAssertion(snap), NoErr)
    /\ res' = "none"
    /\ sent' = sent
    /\ netErr' = netErr

HiddenForm ==
    /\ pc = "dispatch"
    /\ Classify(snap) = "HiddenForm"
    /\ handler' = "HiddenForm"
    /\ UNCHANGED <<cli, creds, trail, snap, passes, followRedirect, credTypeResp, mfaVars>>
    /\ IF getSAMLAssertion(snap) # "" THEN
           /\ pc' = "done"
           /\ out' = Result(getSAMLAssertion(snap), NoErr)
           /\ res' = "none"
           /\ sent' = sent
           /\ netErr' = netErr
       ELSE reProcessForm

\* variant: the form is posted without the test for an empty action
processSAMLRequest_NoURLCheck ==
    LET f == parseFormData(snap) IN
    IF f.err THEN
        /\ Fail(Err("SAMLRequest", "failed to parse SAML request form", "", ""))
        /\ sent' = sent
    ELSE
        SendLast("SAMLRequest", "transport", sent,
                 Req("samlRequest", "POST", fullURL(f.action), f.values, followRedirect))

processSAMLRequest ==
    LET f == parseFormData(snap) IN
    IF f.err THEN
        /\ Fail(Err("SAMLRequest", "failed to parse SAML request form", "", ""))
        /\ sent' = sent
    ELSE IF f.action = NoURL THEN
        /\ Fail(Err("SAMLRequest", "SAML request form URL not found", "", ""))
        /\ sent' = sent
    ELSE
        SendLast("SAMLRequest", "transport", sent,
                 Req("samlRequest", "POST", fullURL(f.action), f.values, followRedirect))

SAMLRequest ==
    /\ pc = "dispatch"
    /\ Classify(snap) = "SAMLRequest"
    /\ handler' = "SAMLRequest"
    /\ UNCHANGED <<cli, creds, trail, snap, passes, followRedirect, credTypeResp, mfaVars>>
    /\ processSAMLRequest

\* variant: an authentication error whenever the sErrorCode key is in the body
Fallback_KeyOnly ==
    /\ pc = "dispatch"
    /\ Classify(snap) = "default"
    /\ handler' = "default"
    /\ sent' = sent
    /\ UNCHANGED <<cli, creds, trail, snap, passes, followRedirect, credTypeResp, mfaVars>>
    /\ IF Contains(snap, ErrorKey)
       THEN Fail(Err("", "authentication error",
                     IF unmarshalFails(snap) THEN "" ELSE snap.cfg.SErrorCode,
                     IF unmarshalFails(snap) THEN "" ELSE snap.cfg.SErrTxt))
       ELSE Fail(Err("", "reached unknown authentication state", "", ""))

\* variant: the benign code 50058 is reported like any other code
Fallback_NoBenign ==
    /\ pc = "dispatch"
    /\ Classify(snap) = "default"
    /\ handler' = "default"
    /\ sent' = sent
    /\ UNCHANGED <<cli, creds, trail, snap, passes, followRedirect, credTypeResp, mfaVars>>
    /\ IF /\ Contains(snap, ErrorKey)
          /\ ~unmarshalFails(snap)
          /\ snap.cfg.SErrorCode # ""
       THEN Fail(Err("", "authentication error", snap.cfg.SErrorCode, snap.cfg.SErrTxt))
       ELSE Fail(Err("", "reached unknown authentication state", "", ""))

\* the default case of the switch
Fallback ==
    /\ pc = "dispatch"
    /\ Classify(snap) = "default"
    /\ handler' = "default"
    /\ sent' = sent
    /\ UNCHANGED <<cli, creds, trail, snap, passes, followRedirect, credTypeResp, mfaVars>>
    /\ IF /\ Contains(snap, ErrorKey)
          /\ ~unmarshalFails(snap)
          /\ snap.cfg.SErrorCode # ""
          /\ snap.cfg.SErrorCode # BenignErrorCode
       THEN Fail(Err("", "authentication error", snap.cfg.SErrorCode, snap.cfg.SErrTxt))
       ELSE Fail(Err("", "reached unknown authentication state", "", ""))

(***************************************************************************)
(* case ConvergedSignIn: processConvergedSignIn, requestGetCredentialType, *)
(* processFederatedAuth, processAuthentication.                            *)
(***************************************************************************)
\* variant: the credential-type query sends the whole credentials
credTypeRequest_WithPassword(cfg) ==
    Req("getCredentialType", "POST", cfg.URLGetCredentialType,
        {<<"username", creds.Username>>,
         <<"password", creds.Password>>,
         <<"isOtherIdpSupported", "true">>,
         <<"originalRequest", cfg.SCtx>>,
         <<"flowToken", cfg.SFT>>,
         <<"header canary", cfg.APICanary>>,
         <<"header hpgrequestid", cfg.SessionID>>},
        followRedirect)

credTypeRequest(cfg) ==
    Req("getCredentialType", "POST", cfg.URLGetCredentialType,
        {<<"username", creds.Username>>,
         <<"isOtherIdpSupported", "true">>,
         <<"originalRequest", cfg.SCtx>>,
         <<"flowToken", cfg.SFT>>,
         <<"header canary", cfg.APICanary>>,
         <<"header hpgrequestid", cfg.SessionID>>},
        followRedirect)

\* variant: the flow token and context of the first page are kept and
\* posted with the canary of the current one
passwordForm_FirstPageTokens(cfg) ==
    {<<"canary", cfg.Canary>>,
     <<"hpgrequestid", cfg.SessionID>>,
     <<cfg.SFTName, "ft1">>,
     <<"ctx", "ctx1">>,
     <<"login", creds.Username>>,
     <<"loginfmt", creds.Username>>,
     <<"passwd", creds.Password>>}

passwordForm(cfg) ==
    {<<"canary", cfg.Canary>>,
     <<"hpgrequestid", cfg.SessionID>>,
     <<cfg.SFTName, cfg.SFT>>,
     <<"ctx", cfg.SCtx>>,
     <<"login", creds.Username>>,
     <<"loginfmt", creds.Username>>,
     <<"passwd", creds.Password>>}

\* processAuthentication, after the credential-type request `q`
processAuthentication(cfg, q) ==
    IF cfg.SErrorCode # "" /\ cfg.SErrorCode # BenignErrorCode THEN
        /\ Fail(Err("ConvergedSignIn", "login error", cfg.SErrorCode, cfg.SErrTxt))
        /\ sent' = <<q>>
    ELSE
        SendLast("ConvergedSignIn", "login request failed", <<q>>,
                 Req("login", "POST", fullURL(cfg.URLPost), passwordForm(cfg), followRedirect))

\* variant: the form is built from the three credential fields alone
adfsForm_CredentialsOnly(values) ==
    ValuesSet(ValuesSet(ValuesSet({}, "UserName", creds.Username),
                        "Password", creds.Password),
              "AuthMethod", "FormsAuthentication")

\* the form posted to the ADFS page: the extracted fields with the three
\* credential fields set
adfsForm(values) ==
    ValuesSet(ValuesSet(ValuesSet(values, "UserName", creds.Username),
                        "Password", creds.Password),
              "AuthMethod", "FormsAuthentication")

\* variant: the password form is posted although the account is federated
processFederatedAuth_Password(federationURL, q, fedForms) ==
    processAuthentication(snap.cfg, q)

\* processFederatedAuth, after the credential-type request `q`
processFederatedAuth(federationURL, q, fedForms) ==
    LET get == Req("federationGet", "GET", federationURL, {}, followRedirect) IN
    \E o \in DoOutcomes(federationURL) \cup {"unreadable"} :
        IF o = "error" THEN
            /\ FailNet(Err("ConvergedSignIn", "failed to get federation URL", "", ""), get)
            /\ sent' = <<q, get>>
        ELSE IF o = "unreadable" THEN
            /\ federationURL.kind = "abs"
            /\ Fail(Err("ConvergedSignIn", "failed to read federation response", "", ""))
            /\ sent' = <<q, get>>
        ELSE
            \E form \in fedForms :
                LET f == parseFormData(Page({}, NoConfig, form, <<>>)) IN
                IF f.err THEN
                    /\ Fail(Err("ConvergedSignIn", "failed to parse ADFS form", "", ""))
                    /\ sent' = <<q, get>>
                ELSE IF f.action = NoURL THEN
                    /\ Fail(Err("ConvergedSignIn", "ADFS form submit URL not found", "", ""))
                    /\ sent' = <<q, get>>
                ELSE
                    SendLast("ConvergedSignIn", "transport", <<q, get>>,
                             Req("adfsLogin", "POST", fullURL(f.action),
                                 adfsForm(f.values), followRedirect))

processConvergedSignIn(fedForms) ==
    IF unmarshalFails(snap) THEN
        /\ Fail(Err("ConvergedSignIn", "failed to parse ConvergedSignIn response", "", ""))
        /\ sent' = sent
        /\ credTypeResp' = credTypeResp
    ELSE
        LET cfg == snap.cfg
            q == credTypeRequest(cfg)
        IN  \E o \in DoOutcomes(q.url) \cup {"undecodable"} :
                IF o = "error" THEN
                    /\ FailNet(Err("ConvergedSignIn", "failed to get credential type", "", ""), q)
                    /\ sent' = <<q>>
                    /\ credTypeResp' = credTypeResp
                ELSE IF o = "undecodable" THEN
                    /\ q.url.kind = "abs"
                    /\ Fail(Err("ConvergedSignIn", "failed to get credential type", "", ""))
                    /\ sent' = <<q>>
                    /\ credTypeResp' = credTypeResp
                ELSE
                    \E FederationRedirectURL \in FederationURLs :
                        /\ credTypeResp' = FederationRedirectURL
                        /\ IF FederationRedirectURL # NoURL
                           THEN processFederatedAuth(FederationRedirectURL, q, fedForms)
                           ELSE processAuthentication(cfg, q)

ConvergedSignIn(fedForms) ==
    /\ pc = "dispatch"
    /\ Classify(snap) = "ConvergedSignIn"
    /\ handler' = "ConvergedSignIn"
    /\ UNCHANGED <<cli, creds, trail, snap, passes, followRedirect, mfaVars>>
    /\ processConvergedSignIn(fedForms)

(***************************************************************************)
(* case KmsiInterrupt: processKmsiInterrupt.                               *)
(***************************************************************************)
DisableFollowRedirect == FALSE
EnableFollowRedirect == TRUE

\* variant: redirect-following is re-enabled only when the request succeeds
processKmsiInterrupt_NoRestoreOnError ==
    IF unmarshalFails(snap) THEN
        /\ Fail(Err("KmsiInterrupt", "failed to parse KMSI response", "", ""))
        /\ sent' = sent
        /\ followRedirect' = followRedirect
    ELSE
        LET cfg == snap.cfg
            r == Req("kmsi", "POST", fullURL(cfg.URLPost),
                     {<<cfg.SFTName, cfg.SFT>>, <<"ctx", cfg.SCtx>>, <<"LoginOptions", "1">>},
                     DisableFollowRedirect)
        IN  /\ SendLast("KmsiInterrupt", "KMSI request failed", sent, r)
            /\ followRedirect' = IF pc' = "done" THEN DisableFollowRedirect
                                 ELSE EnableFollowRedirect

\* variant: the request is sent before redirect-following is disabled
processKmsiInterrupt_FollowsRedirect ==
    IF unmarshalFails(snap) THEN
        /\ Fail(Err("KmsiInterrupt", "failed to parse KMSI response", "", ""))
        /\ sent' = sent
        /\ followRedirect' = followRedirect
    ELSE
        LET cfg == snap.cfg
            r == Req("kmsi", "POST", fullURL(cfg.URLPost),
                     {<<cfg.SFTName, cfg.SFT>>, <<"ctx", cfg.SCtx>>, <<"LoginOptions", "1">>},
                     followRedirect)
        IN  /\ SendLast("KmsiInterrupt", "KMSI request failed", sent, r)
            /\ followRedirect' = EnableFollowRedirect

processKmsiInterrupt ==
    IF unmarshalFails(snap) THEN
        /\ Fail(Err("KmsiInterrupt", "failed to parse KMSI response", "", ""))
        /\ sent' = sent
        /\ followRedirect' = followRedirect
    ELSE
        LET cfg == snap.cfg
            r == Req("kmsi", "POST", fullURL(cfg.URLPost),
                     {<<cfg.SFTName, cfg.SFT>>, <<"ctx", cfg.SCtx>>, <<"LoginOptions", "1">>},
                     DisableFollowRedirect)
        IN  /\ SendLast("KmsiInterrupt", "KMSI request failed", sent, r)
            /\ followRedirect' = EnableFollowRedirect

KmsiInterrupt ==
    /\ pc = "dispatch"
    /\ Classify(snap) = "KmsiInterrupt"
    /\ handler' = "KmsiInterrupt"
    /\ UNCHANGED <<cli, creds, trail, snap, passes, credTypeResp, mfaVars>>
    /\ processKmsiInterrupt

(***************************************************************************)
(* case ConvergedTFA: processConvergedTFA and the MFA driver (processMFA,  *)
(* processMFABeginAuth, processMFAEndAuth, processMFAAuth).                *)
(***************************************************************************)
\* an MFAResponse as decoded from the server's JSON; k tags the answer
\* that issued the tokens
MFAResponse(success, code, retry, m, k, entropy) ==
    [Success |-> success, ErrCode |-> code,
     Message |-> IF code # 0 THEN "denied" ELSE IF success THEN "" ELSE "pending",
     Retry |-> retry, AuthMethodID |-> m,
     Ctx |-> IF k = 1 THEN "mfactx1" ELSE "mfactx2",
     FlowToken |-> IF k = 1 THEN "mfaft1" ELSE "mfaft2",
     SessionID |-> IF k = 1 THEN "mfasid1" ELSE "mfasid2",
     Entropy |-> entropy]

\* the method ids the server may name in an answer
AnswerMethods == {"", MFAPhoneAppOTP, MFAPhoneAppNotification, MFAOneWaySMS}
MFAErrorCodes == {0, 500121}
BeginAnswers ==
    {MFAResponse(s, c, FALSE, m, 1, e) :
        s \in BOOLEAN, c \in MFAErrorCodes, m \in AnswerMethods, e \in {0, 42}}
EndAnswers ==
    {MFAResponse(s, c, r, m, k, 0) :
        s \in BOOLEAN, c \in MFAErrorCodes, r \in BOOLEAN,
        m \in {"", MFAPhoneAppOTP, MFAPhoneAppNotification}, k \in 1..2}
\* the answers of the server of the whole flow
FlowBeginAnswers ==
    {MFAResponse(s, 0, FALSE, m, 1, e) :
        s \in BOOLEAN, m \in {MFAPhoneAppOTP, MFAPhoneAppNotification}, e \in {0, 42}}
FlowEndAnswers ==
    {MFAResponse(s, c, r, MFAPhoneAppNotification, 2, 0) :
        s \in BOOLEAN, c \in MFAErrorCodes, r \in BOOLEAN}
\* what the user may type at the verification code prompt
TypedCodes == {"", "654321"}

\* variant: the session id is left out of the request
marshalMFARequest_NoSession(method, m, ctx, ft, sid, data) ==
    {<<"AuthMethodId", m>>, <<"Method", method>>, <<"Ctx", ctx>>, <<"FlowToken", ft>>}
    \cup (IF data # "" THEN {<<"AdditionalAuthData", data>>} ELSE {})

\* json.Marshal of an MFARequest: SessionId and AdditionalAuthData are omitempty
marshalMFARequest(method, m, ctx, ft, sid, data) ==
    {<<"AuthMethodId", m>>, <<"Method", method>>, <<"Ctx", ctx>>, <<"FlowToken", ft>>}
    \cup (IF sid # "" THEN {<<"SessionId", sid>>} ELSE {})
    \cup (IF data # "" THEN {<<"AdditionalAuthData", data>>} ELSE {})

\* variant: the first proof, whatever is flagged
selectProof_First(mfas) == mfas[1]

\* processMFABeginAuth: the default proof, else the first
selectProof(mfas) ==
    LET defaults == {i \in 1..Len(mfas) : mfas[i].IsDefault} IN
    IF defaults = {} THEN mfas[1]
    ELSE mfas[CHOOSE i \in defaults : \A j \in defaults : i <= j]

\* the duration handed to time.Sleep after a retryable answer, in
\* milliseconds: time.Duration(interval) * time.Second, or the default
pollSleep(intervals, m) ==
    IF \E pr \in intervals : pr[1] = m
    THEN ((CHOOSE pr \in intervals : pr[1] = m)[2] \div SecondMs) * SecondMs
    ELSE DefaultPollMs

\* variant: a begin answer that is not marked success is taken as it is
processMFABeginAuth_NoSuccessCheck(cfg, answers) ==
    LET q == Req("beginAuth", "POST", cfg.URLBeginAuth,
                 marshalMFARequest("BeginAuth", selectProof(cfg.ArrUserProofs).AuthMethodID,
                                   cfg.SCtx, cfg.SFT, "", ""),
                 followRedirect)
    IN  /\ sent' = <<q>>
        /\ \E o \in DoOutcomes(q.url) \cup {"undecodable"} :
              IF o = "error" THEN
                  /\ FailNet(Err("ConvergedTFA", "MFA BeginAuth request failed", "", ""), q)
                  /\ UNCHANGED mfaVars
              ELSE IF o = "undecodable" THEN
                  /\ q.url.kind = "abs"
                  /\ Fail(Err("ConvergedTFA", "failed to decode MFA BeginAuth response", "", ""))
                  /\ UNCHANGED mfaVars
              ELSE
                  \E a \in answers :
                      /\ pc' = "mfa"
                      /\ mfaResp' = a
                      /\ UNCHANGED <<res, out, netErr, mfaIter, endCalls, sleeps,
                                     lastSleep, prompts, hints>>

processMFABeginAuth(cfg, answers) ==
    LET q == Req("beginAuth", "POST", cfg.URLBeginAuth,
                 marshalMFARequest("BeginAuth", selectProof(cfg.ArrUserProofs).AuthMethodID,
                                   cfg.SCtx, cfg.SFT, "", ""),
                 followRedirect)
    IN  /\ sent' = <<q>>
        /\ \E o \in DoOutcomes(q.url) \cup {"undecodable"} :
              IF o = "error" THEN
                  /\ FailNet(Err("ConvergedTFA", "MFA BeginAuth request failed", "", ""), q)
                  /\ UNCHANGED mfaVars
              ELSE IF o = "undecodable" THEN
                  /\ q.url.kind = "abs"
                  /\ Fail(Err("ConvergedTFA", "failed to decode MFA BeginAuth response", "", ""))
                  /\ UNCHANGED mfaVars
              ELSE
                  \E a \in answers :
                      IF ~a.Success THEN
                          /\ Fail(Err("ConvergedTFA", "MFA BeginAuth failed", "", a.Message))
                          /\ UNCHANGED mfaVars
                      ELSE
                          /\ pc' = "mfa"
                          /\ mfaResp' = a
                          /\ UNCHANGED <<res, out, netErr, mfaIter, endCalls, sleeps,
                                         lastSleep, prompts, hints>>

\* variant: listed User Proofs are challenged before the skip URL is looked at
processConvergedTFA_ProofsFirst(answers) ==
    IF unmarshalFails(snap) THEN
        /\ Fail(Err("ConvergedTFA", "failed to parse ConvergedTFA response", "", ""))
        /\ sent' = sent
        /\ UNCHANGED mfaVars
    ELSE IF Len(snap.cfg.ArrUserProofs) > 0 THEN
        processMFABeginAuth(snap.cfg, answers)
    ELSE IF snap.cfg.URLSkipMfaRegistration # NoURL THEN
        /\ SendLast("ConvergedTFA", "transport", sent,
                    Req("skipMfa", "GET", snap.cfg.URLSkipMfaRegistration, {}, followRedirect))
        /\ UNCHANGED mfaVars
    ELSE
        /\ pc' = "read"
        /\ res' = "buf"
        /\ UNCHANGED <<out, sent, netErr, mfaVars>>

processConvergedTFA(answers) ==
    IF unmarshalFails(snap) THEN
        /\ Fail(Err("ConvergedTFA", "failed to parse ConvergedTFA response", "", ""))
        /\ sent' = sent
        /\ UNCHANGED mfaVars
    ELSE IF snap.cfg.URLSkipMfaRegistration # NoURL THEN
        /\ SendLast("ConvergedTFA", "transport", sent,
                    Req("skipMfa", "GET", snap.cfg.URLSkipMfaRegistration, {}, followRedirect))
        /\ UNCHANGED mfaVars
    ELSE IF Len(snap.cfg.ArrUserProofs) > 0 THEN
        processMFABeginAuth(snap.cfg, answers)
    ELSE
        \* return res, nil: the response that was just classified
        /\ pc' = "read"
        /\ res' = "buf"
        /\ UNCHANGED <<out, sent, netErr, mfaVars>>

ConvergedTFA(answers) ==
    /\ pc = "dispatch"
    /\ Classify(snap) = "ConvergedTFA"
    /\ handler' = "ConvergedTFA"
    /\ UNCHANGED <<cli, creds, trail, snap, passes, followRedirect, credTypeResp>>
    /\ processConvergedTFA(answers)

\* variant: the completion form carries the page's own context and flow
\* token instead of those of the exchange
processMFAAuth_PageTokens(a, cfg) ==
    Req("mfaComplete", "POST", cfg.URLPost,
        {<<"request", cfg.SCtx>>,
         <<"mfaAuthMethod", a.AuthMethodID>>,
         <<"canary", cfg.Canary>>,
         <<"login", cfg.SPOSTUsername>>,
         <<cfg.SFTName, cfg.SFT>>},
        followRedirect)

\* processMFAAuth: the request that posts the completion form
processMFAAuth(a, cfg) ==
    Req("mfaComplete", "POST", cfg.URLPost,
        {<<"request", a.Ctx>>,
         <<"mfaAuthMethod", a.AuthMethodID>>,
         <<"canary", cfg.Canary>>,
         <<"login", cfg.SPOSTUsername>>,
         <<cfg.SFTName, a.FlowToken>>},
        followRedirect)

\* variant: Success is tested before ErrCode
endAuthOutcome_SuccessFirst(a) ==
    IF a.Success THEN "success"
    ELSE IF a.ErrCode # 0 THEN "error"
    ELSE IF ~a.Retry THEN "failed"
    ELSE "retry"

\* variant: an answer without success is polled again whatever Retry says
endAuthOutcome_RetryIgnored(a) ==
    IF a.ErrCode # 0 THEN "error"
    ELSE IF a.Success THEN "success"
    ELSE "retry"

\* variant: the loop gives up after two attempts
endAuthOutcome_MaxAttempts(a) ==
    IF a.ErrCode # 0 THEN "error"
    ELSE IF a.Success THEN "success"
    ELSE IF ~a.Retry \/ mfaIter >= 1 THEN "failed"
    ELSE "retry"

\* processMFA: what the loop does with the answer of an end-challenge call
endAuthOutcome(a) ==
    IF a.ErrCode # 0 THEN "error"
    ELSE IF a.Success THEN "success"
    ELSE IF ~a.Retry THEN "failed"
    ELSE "retry"

\* variant: the approval notice is printed before every poll
pollOnce_HintEveryPoll(data, answers) ==
    LET cfg == snap.cfg
        q == Req("endAuth", "POST", cfg.URLEndAuth,
                 marshalMFARequest("EndAuth", mfaResp.AuthMethodID, mfaResp.Ctx,
                                   mfaResp.FlowToken, mfaResp.SessionID, data),
                 followRedirect)
    IN  /\ endCalls' = endCalls + 1
        /\ hints' = IF mfaResp.AuthMethodID = MFAPhoneAppNotification
                    THEN Append(hints, IF mfaResp.Entropy = 0 THEN "approval required"
                                       ELSE "number match")
                    ELSE hints
        /\ \E o \in DoOutcomes(q.url) \cup {"undecodable"} :
              IF o = "error" THEN
                  /\ FailNet(Err("ConvergedTFA", "MFA EndAuth request failed", "", ""), q)
                  /\ sent' = <<q>>
                  /\ UNCHANGED <<mfaResp, mfaIter, sleeps, lastSleep>>
              ELSE IF o = "undecodable" THEN
                  /\ q.url.kind = "abs"
                  /\ Fail(Err("ConvergedTFA", "failed to decode MFA EndAuth response", "", ""))
                  /\ sent' = <<q>>
                  /\ UNCHANGED <<mfaResp, mfaIter, sleeps, lastSleep>>
              ELSE
                  \E a \in answers :
                      /\ mfaResp' = a
                      /\ sent' = <<q>> \o (IF endAuthOutcome(a) = "success"
                                            THEN <<processMFAAuth(a, cfg)>> ELSE <<>>)
                      /\ CASE endAuthOutcome(a) = "error" ->
                               /\ Fail(Err("ConvergedTFA", "MFA error", ToString(a.ErrCode), a.Message))
                               /\ UNCHANGED <<mfaIter, sleeps, lastSleep>>
                           [] endAuthOutcome(a) = "success" ->
                               /\ \E o2 \in DoOutcomes(cfg.URLPost) :
                                     IF o2 = "ok" THEN Continue
                                     ELSE FailNet(Err("ConvergedTFA", "transport", "", ""),
                                                  processMFAAuth(a, cfg))
                               /\ UNCHANGED <<mfaIter, sleeps, lastSleep>>
                           [] endAuthOutcome(a) = "failed" ->
                               /\ Fail(Err("ConvergedTFA", "MFA authentication failed", "", ""))
                               /\ UNCHANGED <<mfaIter, sleeps, lastSleep>>
                           [] OTHER ->
                               /\ sleeps' = sleeps + 1
                               /\ lastSleep' = pollSleep(cfg.OPerAuthPollingInterval, a.AuthMethodID)
                               /\ mfaIter' = mfaIter + 1
                               /\ UNCHANGED <<pc, res, out, netErr>>

\* one iteration of the polling loop of processMFA with the additional
\* auth data `data`, and what follows the loop when it ends here
pollOnce(data, answers) ==
    LET cfg == snap.cfg
        q == Req("endAuth", "POST", cfg.URLEndAuth,
                 marshalMFARequest("EndAuth", mfaResp.AuthMethodID, mfaResp.Ctx,
                                   mfaResp.FlowToken, mfaResp.SessionID, data),
                 followRedirect)
    IN  /\ endCalls' = endCalls + 1
        /\ hints' = IF mfaResp.AuthMethodID = MFAPhoneAppNotification /\ mfaIter = 0
                    THEN Append(hints, IF mfaResp.Entropy = 0 THEN "approval required"
                                       ELSE "number match")
                    ELSE hints
        /\ \E o \in DoOutcomes(q.url) \cup {"undecodable"} :
              IF o = "error" THEN
                  /\ FailNet(Err("ConvergedTFA", "MFA EndAuth request failed", "", ""), q)
                  /\ sent' = <<q>>
                  /\ UNCHANGED <<mfaResp, mfaIter, sleeps, lastSleep>>
              ELSE IF o = "undecodable" THEN
                  /\ q.url.kind = "abs"
                  /\ Fail(Err("ConvergedTFA", "failed to decode MFA EndAuth response", "", ""))
                  /\ sent' = <<q>>
                  /\ UNCHANGED <<mfaResp, mfaIter, sleeps, lastSleep>>
              ELSE
                  \E a \in answers :
                      /\ mfaResp' = a
                      /\ sent' = <<q>> \o (IF endAuthOutcome(a) = "success"
                                            THEN <<processMFAAuth(a, cfg)>> ELSE <<>>)
                      /\ CASE endAuthOutcome(a) = "error" ->
                               /\ Fail(Err("ConvergedTFA", "MFA error", ToString(a.ErrCode), a.Message))
                               /\ UNCHANGED <<mfaIter, sleeps, lastSleep>>
                           [] endAuthOutcome(a) = "success" ->
                               /\ \E o2 \in DoOutcomes(cfg.URLPost) :
                                     IF o2 = "ok" THEN Continue
                                     ELSE FailNet(Err("ConvergedTFA", "transport", "", ""),
                                                  processMFAAuth(a, cfg))
                               /\ UNCHANGED <<mfaIter, sleeps, lastSleep>>
                           [] endAuthOutcome(a) = "failed" ->
                               /\ Fail(Err("ConvergedTFA", "MFA authentication failed", "", ""))
                               /\ UNCHANGED <<mfaIter, sleeps, lastSleep>>
                           [] OTHER ->
                               /\ sleeps' = sleeps + 1
                               /\ lastSleep' = pollSleep(cfg.OPerAuthPollingInterval, a.AuthMethodID)
                               /\ mfaIter' = mfaIter + 1
                               /\ UNCHANGED <<pc, res, out, netErr>>

\* variant: a code is asked for even when the caller supplied one
MFAPoll_AlwaysPrompt(answers) ==
    /\ pc = "mfa"
    /\ mfaIter < MaxPolls
    /\ UNCHANGED <<cli, creds, trail, snap, handler, passes, followRedirect, credTypeResp>>
    /\ IF mfaResp.AuthMethodID = MFAPhoneAppOTP \/ mfaResp.AuthMethodID = MFAOneWaySMS THEN
           \/ /\ prompts' = Append(prompts, "")
              /\ Fail(Err("ConvergedTFA", "failed to read verification code", "", ""))
              /\ UNCHANGED <<sent, mfaResp, mfaIter, endCalls, sleeps, lastSleep, hints>>
           \/ \E verifyCode \in TypedCodes :
                 /\ prompts' = Append(prompts, verifyCode)
                 /\ pollOnce(verifyCode, answers)
       ELSE
           /\ pollOnce("", answers)
           /\ prompts' = prompts

MFAPoll(answers) ==
    /\ pc = "mfa"
    /\ mfaIter < MaxPolls
    /\ UNCHANGED <<cli, creds, trail, snap, handler, passes, followRedirect, credTypeResp>>
    /\ IF mfaResp.AuthMethodID = MFAPhoneAppOTP \/ mfaResp.AuthMethodID = MFAOneWaySMS THEN
           IF creds.MFAToken # "" THEN
               /\ pollOnce(creds.MFAToken, answers)
               /\ prompts' = prompts
           ELSE
               \/ /\ prompts' = Append(prompts, "")
                  /\ Fail(Err("ConvergedTFA", "failed to read verification code", "", ""))
                  /\ UNCHANGED <<sent, mfaResp, mfaIter, endCalls, sleeps, lastSleep, hints>>
               \/ \E verifyCode \in TypedCodes :
                     /\ prompts' = Append(prompts, verifyCode)
                     /\ pollOnce(verifyCode, answers)
       ELSE
           /\ pollOnce("", answers)
           /\ prompts' = prompts

(***************************************************************************)
(* One call of Authenticate against any server.                            *)
(***************************************************************************)
Next ==
    \/ Authenticate
    \/ NextPass
    \/ ReadBody(FlowPages)
    \/ ConvergedSignIn(FedForms)
    \/ ConvergedTFA(FlowBeginAnswers)
    \/ MFAPoll(FlowEndAnswers)
    \/ KmsiInterrupt
    \/ SAMLRequest
    \/ HiddenForm
    \/ Fallback

Spec == Init /\ [][Next]_vars

(***************************************************************************)
(* The ConvergedTFA handler alone, entered with any list of User Proofs,   *)
(* and the MFA exchange alone, against any answers.                        *)
(***************************************************************************)
ValidCreds == {Creds("user", "pw", t) : t \in {"", "123456"}}

\* the loop has read a body out of `pages` in its first pass
InitAt(pages) ==
    /\ pc = "dispatch"
    /\ creds \in ValidCreds
    /\ res = "net"
    /\ snap \in pages
    /\ handler = "none"
    /\ sent = <<>>
    /\ passes = 1
    /\ out = NoResult
    /\ followRedirect = TRUE
    /\ credTypeResp = NoURL
    /\ trail = <<>>
    /\ netErr = NoReq
    /\ cli = NoCli
    /\ MFAIdle

AllProofs ==
    {Proof(m, d) :
        m \in {MFAPhoneAppOTP, MFAPhoneAppNotification, MFATwoWayVoiceMobile}, d \in BOOLEAN}
ProofPages ==
    {Page({"ConvergedTFA"}, Config(1, "", "abs", skip, proofs, {}), NoForm, <<>>) :
        skip \in SkipURLs, proofs \in SeqUpTo(AllProofs, MaxProofs)}

InitBegin == InitAt(ProofPages)
NextBegin == ConvergedTFA(BeginAnswers)
SpecBegin == InitBegin /\ [][NextBegin]_vars

\* oPerAuthPollingInterval in milliseconds: whole and fractional seconds
AdvertisedMs == {500, 1000, 1500}
PollIntervals ==
    {{}}
    \cup {{<<m, v>>} : m \in {MFAPhoneAppOTP, MFAPhoneAppNotification}, v \in AdvertisedMs}
    \cup {{<<MFAPhoneAppOTP, v>>, <<MFAPhoneAppNotification, w>>} :
            v \in AdvertisedMs, w \in AdvertisedMs}
PollPages ==
    {Page({"ConvergedTFA"},
          Config(1, "", "abs", NoURL, <<Proof(MFAPhoneAppNotification, FALSE)>>, iv),
          NoForm, <<>>) :
        iv \in PollIntervals}

InitMFA == InitAt(PollPages)
NextMFA == ConvergedTFA(BeginAnswers) \/ MFAPoll(EndAnswers)
SpecMFA == InitMFA /\ [][NextMFA]_vars

(***************************************************************************)
(* The commands around Authenticate.  While one runs, the variables of the *)
(* flow rest and cli holds the command's inputs, position and effects.     *)
(***************************************************************************)
FlowIdle ==
    /\ pc = "idle"
    /\ creds = NilCreds
    /\ res = "none"
    /\ snap = NoPage
    /\ handler = "none"
    /\ sent = <<>>
    /\ passes = 0
    /\ out = NoResult
    /\ followRedirect = TRUE
    /\ credTypeResp = NoURL
    /\ trail = <<>>
    /\ netErr = NoReq
    /\ MFAIdle

(***************************************************************************)
(* login: runLogin, Config.GetProfile, aws.CredentialsExpired, IsExpired,  *)
(* GetSessionDuration.  Times are minutes from now, durations seconds.     *)
(***************************************************************************)
\* IsExpired: 5*time.Minute
ExpiryMarginMinutes == 5
\* GetSessionDuration: return 3600
FallbackSessionDuration == 3600

\* x_security_token_expires of the stored credentials, in minutes from now
RemainingMinutes == {-10, 0, 4, 5, 6, 14, 15, 16, 60}
\* the profile's section of ~/.aws/credentials
StoredCredentials ==
    {[present |-> FALSE, hasExpiration |-> FALSE, remaining |-> 0],
     [present |-> TRUE, hasExpiration |-> FALSE, remaining |-> 0]}
    \cup {[present |-> TRUE, hasExpiration |-> TRUE, remaining |-> r] : r \in RemainingMinutes}
\* session_duration of the profile and of defaults in the configuration
\* file (defaults: 3600 when the file does not set it), and the
\* SessionDuration attribute of the assertion (0: none)
ProfileDurations == {0, 900, 7200}
DefaultsDurations == {0, 1800, 3600}
SAMLDurations == {-1, 0, 900, 7200}

\* IsExpired without the comparison
IsExpired_Never(remaining) == FALSE

IsExpired(remaining) == remaining < ExpiryMarginMinutes

\* LoadCredentials: err == nil
LoadCredentials(stored) == stored.present

CredentialsExpired(stored) ==
    IF ~LoadCredentials(stored) THEN TRUE
    ELSE IF ~stored.hasExpiration THEN TRUE
    ELSE IsExpired(stored.remaining)

\* Config.GetProfile: SessionDuration of the merged profile
GetProfile(profileDuration, defaultsDuration) ==
    IF profileDuration > 0 THEN profileDuration ELSE defaultsDuration

GetSessionDuration(configuredDuration, samlDuration) ==
    IF configuredDuration > 0 THEN configuredDuration
    ELSE IF samlDuration > 0 THEN samlDuration
    ELSE FallbackSessionDuration

InitLogin ==
    /\ FlowIdle
    /\ cli \in [cmd : {"login"}, pc : {"start"},
                force : BOOLEAN, skipPrompt : BOOLEAN,
                configLoads : BOOLEAN, profileExists : BOOLEAN,
                profileDuration : ProfileDurations, defaultsDuration : DefaultsDurations,
                stored : StoredCredentials,
                result : {""}, skipped : {FALSE}, authCalls : {0},
                samlDuration : {0}, assumed : {FALSE}, durationSeconds : {0},
                saved : {FALSE}]

\* runLogin returns
LoginReturn(result, authCalls, samlDuration, assumed, durationSeconds, saved) ==
    cli' = [cli EXCEPT !.pc = "done", !.result = result, !.authCalls = authCalls,
                       !.samlDuration = samlDuration, !.assumed = assumed,
                       !.durationSeconds = durationSeconds, !.saved = saved]

runLogin ==
    /\ cli.cmd = "login"
    /\ cli.pc = "start"
    /\ UNCHANGED <<flowVars, mfaVars>>
    /\ IF ~cli.configLoads THEN LoginReturn("failed to load config", 0, 0, FALSE, 0, FALSE)
       ELSE IF ~cli.profileExists THEN LoginReturn("profile not found", 0, 0, FALSE, 0, FALSE)
       ELSE IF ~cli.force /\ ~CredentialsExpired(cli.stored) /\ LoadCredentials(cli.stored) THEN
           cli' = [cli EXCEPT !.pc = "done", !.result = "still valid", !.skipped = TRUE]
       ELSE
           \/ /\ cli.skipPrompt
              /\ LoginReturn("failed to get password", 0, 0, FALSE, 0, FALSE)
           \/ LoginReturn("failed to create Azure AD client", 0, 0, FALSE, 0, FALSE)
           \/ LoginReturn("authentication failed", 1, 0, FALSE, 0, FALSE)
           \/ \E e \in {"failed to parse SAML assertion", "no AWS roles found",
                        "configured role not found", "failed to select role"} :
                 LoginReturn(e, 1, 0, FALSE, 0, FALSE)
           \/ \E samlDuration \in SAMLDurations :
                 LET profile == GetProfile(cli.profileDuration, cli.defaultsDuration)
                     sessionDuration == GetSessionDuration(profile, samlDuration)
                 IN  \/ LoginReturn("failed to assume role", 1, samlDuration, TRUE,
                                    sessionDuration, FALSE)
                     \/ LoginReturn("failed to save credentials", 1, samlDuration, TRUE,
                                    sessionDuration, FALSE)
                     \/ LoginReturn("", 1, samlDuration, TRUE, sessionDuration, TRUE)

NextLogin == runLogin
SpecLogin == InitLogin /\ [][NextLogin]_vars

(***************************************************************************)
(* exec and console: runExec, runConsole on the stored credentials.        *)
(***************************************************************************)
InitExec ==
    /\ FlowIdle
    /\ cli \in [cmd : {"exec", "console"}, pc : {"start"},
                stored : StoredCredentials, keysEmpty : BOOLEAN,
                hasCommand : BOOLEAN, link : BOOLEAN,
                result : {""}, ran : {FALSE}, urlRequested : {FALSE}, opened : {FALSE}]

runExec ==
    /\ cli.cmd = "exec" /\ cli.pc = "start"
    /\ UNCHANGED <<flowVars, mfaVars>>
    /\ IF ~cli.hasCommand
       THEN cli' = [cli EXCEPT !.pc = "done", !.result = "command to execute is required"]
       ELSE IF ~LoadCredentials(cli.stored)
       THEN cli' = [cli EXCEPT !.pc = "done", !.result = "failed to load credentials"]
       ELSE IF cli.keysEmpty
       THEN cli' = [cli EXCEPT !.pc = "done", !.result = "credentials are empty"]
       ELSE IF cli.stored.hasExpiration /\ IsExpired(cli.stored.remaining)
       THEN cli' = [cli EXCEPT !.pc = "done", !.result = "credentials have expired"]
       ELSE \E exit \in {"", "command failed"} :
               cli' = [cli EXCEPT !.pc = "done", !.result = exit, !.ran = TRUE]

runConsole ==
    /\ cli.cmd = "console" /\ cli.pc = "start"
    /\ UNCHANGED <<flowVars, mfaVars>>
    /\ IF ~LoadCredentials(cli.stored)
       THEN cli' = [cli EXCEPT !.pc = "done", !.result = "failed to load credentials"]
       ELSE IF cli.keysEmpty
       THEN cli' = [cli EXCEPT !.pc = "done", !.result = "credentials are empty"]
       ELSE IF cli.stored.hasExpiration /\ IsExpired(cli.stored.remaining)
       THEN cli' = [cli EXCEPT !.pc = "done", !.result = "credentials have expired"]
       ELSE \/ cli' = [cli EXCEPT !.pc = "done", !.urlRequested = TRUE,
                                  !.result = "failed to generate console URL"]
            \/ /\ cli.link
               /\ cli' = [cli EXCEPT !.pc = "done", !.urlRequested = TRUE]
            \/ /\ ~cli.link
               /\ \E err \in {"", "failed to open browser"} :
                     cli' = [cli EXCEPT !.pc = "done", !.urlRequested = TRUE,
                                        !.result = err, !.opened = err = ""]

NextExec ==
    \/ runExec
    \/ runConsole
SpecExec == InitExec /\ [][NextExec]_vars

(***************************************************************************)
(* update: runUpdate, findAssets, verifyChecksum, replaceBinary.  A file   *)
(* is kept as its SHA256 digest; the release as what runUpdate reads of    *)
(* it.                                                                     *)
(***************************************************************************)
\* azure2aws_<version>_<goos>_<goarch>.tar.gz of the release that is read
archiveName == "azure2aws_1.2.0_linux_amd64.tar.gz"
checksumName == "azure2aws_checksums.txt"
Digests == {"d1", "d2"}
\* the lines of the checksum list, as strings.Fields splits them
ChecksumLines ==
    {<<d, n>> : d \in Digests, n \in {archiveName, "azure2aws_1.2.0_darwin_arm64.tar.gz"}}
    \cup {<<"d1">>}
MaxLines == 2
\* what the GET of the checksum list returns: an error, or its lines
ChecksumLists == {[ok |-> FALSE, lines |-> <<>>]}
                 \cup {[ok |-> TRUE, lines |-> l] : l \in SeqUpTo(ChecksumLines, MaxLines)}

\* findAssets: which of the two assets the release lists
findAssets(assetNames) ==
    [asset |-> archiveName \in assetNames, checksumAsset |-> checksumName \in assetNames]

\* verifyChecksum: TRUE when it returns nil
verifyChecksum(digest, list) ==
    IF ~list.ok THEN FALSE
    ELSE LET hits == {i \in 1..Len(list.lines) :
                         Len(list.lines[i]) = 2 /\ list.lines[i][2] = archiveName}
         IN  IF hits = {} THEN FALSE
             ELSE LET first == CHOOSE i \in hits : \A j \in hits : i <= j
                  IN  list.lines[first][1] # "" /\ list.lines[first][1] = digest

InitUpdate ==
    /\ FlowIdle
    /\ cli \in [cmd : {"update"}, pc : {"start"},
                force : BOOLEAN,
                releaseOk : BOOLEAN, sameVersion : BOOLEAN,
                assets : SUBSET {archiveName, checksumName},
                downloadOk : BOOLEAN, digest : Digests,
                checksums : ChecksumLists,
                result : {""}, verified : {FALSE}, binary : {"old"}]

UpdateReturn(result, verified, binary) ==
    cli' = [cli EXCEPT !.pc = "done", !.result = result, !.verified = verified,
                       !.binary = binary]

\* replaceBinary: the executable afterwards, and whether it returned nil
replaceBinary(verified) ==
    \/ UpdateReturn("failed to install update", verified, "old")
    \/ UpdateReturn("failed to install update", verified, "missing")
    \/ UpdateReturn("", verified, "new")

runUpdate ==
    /\ cli.cmd = "update"
    /\ cli.pc = "start"
    /\ UNCHANGED <<flowVars, mfaVars>>
    /\ \/ UpdateReturn("failed to get current executable path", FALSE, "old")
       \/ IF ~cli.releaseOk THEN UpdateReturn("failed to check for updates", FALSE, "old")
          ELSE IF ~cli.force /\ cli.sameVersion THEN UpdateReturn("latest", FALSE, "old")
          ELSE IF ~findAssets(cli.assets).asset THEN UpdateReturn("no release found", FALSE, "old")
          ELSE IF ~cli.downloadOk THEN UpdateReturn("failed to download update", FALSE, "old")
          ELSE IF /\ findAssets(cli.assets).checksumAsset
                  /\ ~verifyChecksum(cli.digest, cli.checksums)
               THEN UpdateReturn("checksum verification failed", FALSE, "old")
          ELSE LET verified == findAssets(cli.assets).checksumAsset IN
               \/ UpdateReturn("failed to extract binary", verified, "old")
               \/ replaceBinary(verified)

NextUpdate == runUpdate
SpecUpdate == InitUpdate /\ [][NextUpdate]_vars

(***************************************************************************)
(* update, installation step by step: replaceBinary and copyFile as the    *)
(* file system sees them, for two update processes "A" and "B" on one      *)
(* executable.  A path names an inode ("old", or the one an updater        *)
(* created) or "none"; an inode holds chunks and a mode.                   *)
(***************************************************************************)
FileChunks == 2
WholeFile(c) == [i \in 1..FileChunks |-> c]

\* os.Rename(from, to) on the two paths of replaceBinary
Rename(paths, from, to) == [paths EXCEPT ![to] = paths[from], ![from] = "none"]

\* a write of one chunk at offset off through an open descriptor
WriteAt(data, off, c) ==
    IF off <= Len(data) THEN [data EXCEPT ![off] = c]
    ELSE [i \in 1..off |-> IF i <= Len(data) THEN data[i]
                           ELSE IF i = off THEN c ELSE "zero"]

InitInstall ==
    /\ FlowIdle
    /\ cli = [cmd |-> "install",
              paths |-> [exec |-> "old", backup |-> "none"],
              inodes |-> [i \in {"old", "A", "B"} |->
                            IF i = "old"
                            THEN [data |-> WholeFile("old"), executable |-> TRUE]
                            ELSE [data |-> <<>>, executable |-> FALSE]],
              proc |-> [p \in {"A", "B"} |->
                            [pc |-> "start", fd |-> "none", off |-> 1, result |-> ""]]]

ProcStep(p, pc2, fd2, off2, result2) ==
    [cli.proc EXCEPT ![p] = [pc |-> pc2, fd |-> fd2, off |-> off2, result |-> result2]]

\* replaceBinary, one system call a step
replaceBinaryStep(p) ==
    /\ cli.cmd = "install"
    /\ UNCHANGED <<flowVars, mfaVars>>
    /\ \/ \* runUpdate up to "Installing update...": nothing is taken or held
          /\ cli.proc[p].pc = "start"
          /\ cli' = [cli EXCEPT !.proc = ProcStep(p, "rename", "none", 1, "")]
       \/ \* os.Rename(oldPath, backupPath)
          /\ cli.proc[p].pc = "rename"
          /\ IF cli.paths.exec = "none"
             THEN cli' = [cli EXCEPT !.proc = ProcStep(p, "done", "none", 1,
                                                       "failed to install update")]
             ELSE cli' = [cli EXCEPT !.paths = Rename(cli.paths, "exec", "backup"),
                                     !.proc = ProcStep(p, "create", "none", 1, "")]
       \/ \* copyFile failed: os.Rename(backupPath, oldPath), its error dropped
          /\ cli.proc[p].pc = "restore"
          /\ cli' = [cli EXCEPT !.paths = IF cli.paths.backup = "none" THEN @
                                          ELSE Rename(@, "backup", "exec"),
                                !.proc = ProcStep(p, "done", "none", 1,
                                                  "failed to install update")]
       \/ \* os.Remove(backupPath); return nil
          /\ cli.proc[p].pc = "remove"
          /\ cli' = [cli EXCEPT !.paths.backup = "none",
                                !.proc = ProcStep(p, "done", "none", 1, "")]

\* copyFile, one system call a step
copyFileStep(p) ==
    /\ cli.cmd = "install"
    /\ UNCHANGED <<flowVars, mfaVars>>
    /\ \/ \* os.Open(src), os.Create(dst)
          /\ cli.proc[p].pc = "create"
          /\ \/ cli' = [cli EXCEPT !.proc = ProcStep(p, "restore", "none", 1, "")]
             \/ LET i == IF cli.paths.exec = "none" THEN p ELSE cli.paths.exec
                IN  cli' = [cli EXCEPT !.paths.exec = i,
                                       !.inodes[i] =
                                           IF cli.paths.exec = "none"
                                           THEN [data |-> <<>>, executable |-> FALSE]
                                           ELSE [@ EXCEPT !.data = <<>>],
                                       !.proc = ProcStep(p, "copy", i, 1, "")]
       \/ \* io.Copy(out, in), one chunk a step
          /\ cli.proc[p].pc = "copy"
          /\ LET q == cli.proc[p] IN
             \/ cli' = [cli EXCEPT !.proc = ProcStep(p, "restore", "none", 1, "")]
             \/ /\ q.off <= FileChunks
                /\ cli' = [cli EXCEPT !.inodes[q.fd].data = WriteAt(@, q.off, p),
                                      !.proc = ProcStep(p, "copy", q.fd, q.off + 1, "")]
             \/ /\ q.off > FileChunks
                /\ cli' = [cli EXCEPT !.proc = ProcStep(p, "chmod", "none", 1, "")]
       \/ \* os.Chmod(dst, 0755), by path
          /\ cli.proc[p].pc = "chmod"
          /\ IF cli.paths.exec = "none"
             THEN cli' = [cli EXCEPT !.proc = ProcStep(p, "restore", "none", 1, "")]
             ELSE cli' = [cli EXCEPT !.inodes[cli.paths.exec].executable = TRUE,
                                     !.proc = ProcStep(p, "remove", "none", 1, "")]

NextInstall ==
    \E p \in {"A", "B"} :
        \/ replaceBinaryStep(p)
        \/ copyFileStep(p)
SpecInstall == InitInstall /\ [][NextInstall]_vars

(***************************************************************************)
(* config: Config, NewConfig, SaveConfig, LoadConfig, Config.GetProfile.   *)
(* Profiles is a function from the stored names; a YAML document is the    *)
(* set of its scalar entries, each a key path with a string or an integer. *)
(***************************************************************************)
NewConfig ==
    [Defaults |-> [Region |-> "us-east-1", SessionDuration |-> 3600],
     Profiles |-> [n \in {} |-> {}]]

\* the Profile values tried
ProfileValues ==
    [URL : {"", "https://myapps.microsoft.com"}, AppID : {"app-123"},
     Username : {"user@example.com"},
     RoleARN : {"", "arn:aws:iam::1:role/Admin"}, Region : {"", "eu-west-1"},
     Output : {"", "table"}, SessionDuration : {0, 7200}]

\* the Config values tried: "prod" holds any Profile, "dev" one
Configs ==
    {[Defaults |-> [Region |-> r, SessionDuration |-> d],
      Profiles |-> [n \in names |-> IF n = "prod" THEN prod
                                    ELSE [URL |-> "https://dev", AppID |-> "app-dev",
                                          Username |-> "dev@example.com", RoleARN |-> "",
                                          Region |-> "", Output |-> "",
                                          SessionDuration |-> 0]]] :
        r \in {"", "ap-northeast-1"}, d \in {0, 1800},
        names \in SUBSET {"prod", "dev"}, prod \in ProfileValues}

\* one scalar of a YAML document
Entry(key, str, int, isInt) == [key |-> key, str |-> str, int |-> int, isInt |-> isInt]

\* Marshal with omitempty on the fields of Defaults as well
Marshal_OmitEmptyDefaults(c) ==
    {e \in {Entry(<<"defaults", "region">>, c.Defaults.Region, 0, FALSE),
            Entry(<<"defaults", "session_duration">>, "", c.Defaults.SessionDuration, TRUE)} :
        IF e.isInt THEN e.int # 0 ELSE e.str # ""}
    \cup UNION {
        LET q == c.Profiles[n] IN
        {Entry(<<"profiles", n, "url">>, q.URL, 0, FALSE),
         Entry(<<"profiles", n, "app_id">>, q.AppID, 0, FALSE),
         Entry(<<"profiles", n, "username">>, q.Username, 0, FALSE)}
        \cup (IF q.RoleARN = "" THEN {} ELSE {Entry(<<"profiles", n, "role_arn">>, q.RoleARN, 0, FALSE)})
        \cup (IF q.Region = "" THEN {} ELSE {Entry(<<"profiles", n, "region">>, q.Region, 0, FALSE)})
        \cup (IF q.Output = "" THEN {} ELSE {Entry(<<"profiles", n, "output">>, q.Output, 0, FALSE)})
        \cup (IF q.SessionDuration = 0 THEN {}
              ELSE {Entry(<<"profiles", n, "session_duration">>, "", q.SessionDuration, TRUE)})
        : n \in DOMAIN c.Profiles}

\* yaml.Marshal(cfg): the struct tags of Config, Defaults and Profile;
\* role_arn, region, output and session_duration of a profile are omitempty
Marshal(c) ==
    {Entry(<<"defaults", "region">>, c.Defaults.Region, 0, FALSE),
     Entry(<<"defaults", "session_duration">>, "", c.Defaults.SessionDuration, TRUE)}
    \cup UNION {
        LET q == c.Profiles[n] IN
        {Entry(<<"profiles", n, "url">>, q.URL, 0, FALSE),
         Entry(<<"profiles", n, "app_id">>, q.AppID, 0, FALSE),
         Entry(<<"profiles", n, "username">>, q.Username, 0, FALSE)}
        \cup (IF q.RoleARN = "" THEN {} ELSE {Entry(<<"profiles", n, "role_arn">>, q.RoleARN, 0, FALSE)})
        \cup (IF q.Region = "" THEN {} ELSE {Entry(<<"profiles", n, "region">>, q.Region, 0, FALSE)})
        \cup (IF q.Output = "" THEN {} ELSE {Entry(<<"profiles", n, "output">>, q.Output, 0, FALSE)})
        \cup (IF q.SessionDuration = 0 THEN {}
              ELSE {Entry(<<"profiles", n, "session_duration">>, "", q.SessionDuration, TRUE)})
        : n \in DOMAIN c.Profiles}

\* yaml.Unmarshal(data, cfg): a key of the document sets its field, a key
\* that is absent leaves the field as it was (the zero value in a new Profile)
Unmarshal(doc, into) ==
    LET str(key, was) == IF \E e \in doc : e.key = key
                         THEN (CHOOSE e \in doc : e.key = key).str ELSE was
        int(key, was) == IF \E e \in doc : e.key = key
                         THEN (CHOOSE e \in doc : e.key = key).int ELSE was
        names == {e.key[2] : e \in {x \in doc : x.key[1] = "profiles"}}
    IN  [Defaults |-> [Region |-> str(<<"defaults", "region">>, into.Defaults.Region),
                       SessionDuration |-> int(<<"defaults", "session_duration">>,
                                               into.Defaults.SessionDuration)],
         Profiles |-> [n \in names |->
                          [URL |-> str(<<"profiles", n, "url">>, ""),
                           AppID |-> str(<<"profiles", n, "app_id">>, ""),
                           Username |-> str(<<"profiles", n, "username">>, ""),
                           RoleARN |-> str(<<"profiles", n, "role_arn">>, ""),
                           Region |-> str(<<"profiles", n, "region">>, ""),
                           Output |-> str(<<"profiles", n, "output">>, ""),
                           SessionDuration |-> int(<<"profiles", n, "session_duration">>, 0)]]]

\* LoadConfig(path): the error and the configuration it returns
LoadConfig(file) ==
    IF ~file.exists THEN [err |-> "ErrConfigNotFound", cfg |-> NewConfig]
    ELSE [err |-> "", cfg |-> Unmarshal(file.doc, NewConfig)]

\* GetProfile with the profile's own region and duration, defaults ignored
ConfigGetProfile_NoDefaults(c, name) ==
    IF name \notin DOMAIN c.Profiles
    THEN [err |-> "ErrProfileNotFound", name |-> name, profile |-> [Name |-> ""]]
    ELSE LET q == c.Profiles[name] IN
         [err |-> "", name |-> name,
          profile |-> [Name |-> name, URL |-> q.URL, AppID |-> q.AppID,
                       Username |-> q.Username, RoleARN |-> q.RoleARN,
                       Output |-> q.Output, Region |-> q.Region,
                       SessionDuration |-> q.SessionDuration]]

\* Config.GetProfile(name): the error and the merged profile it returns
ConfigGetProfile(c, name) ==
    IF name \notin DOMAIN c.Profiles
    THEN [err |-> "ErrProfileNotFound", name |-> name, profile |-> [Name |-> ""]]
    ELSE LET q == c.Profiles[name] IN
         [err |-> "", name |-> name,
          profile |-> [Name |-> name, URL |-> q.URL, AppID |-> q.AppID,
                       Username |-> q.Username, RoleARN |-> q.RoleARN,
                       Output |-> q.Output,
                       Region |-> IF q.Region # "" THEN q.Region ELSE c.Defaults.Region,
                       SessionDuration |-> IF q.SessionDuration > 0 THEN q.SessionDuration
                                           ELSE c.Defaults.SessionDuration]]

\* Config.SetProfile(name, profile): adds or replaces the entry of name
SetProfile(c, name, profile) ==
    [c EXCEPT !.Profiles = [n \in DOMAIN c.Profiles \cup {name} |->
                               IF n = name THEN profile ELSE c.Profiles[n]]]

\* variant: a name that is not stored is deleted without an error
DeleteProfile_NoExistsCheck(c, name) ==
    [err |-> "", name |-> name,
     cfg |-> [c EXCEPT !.Profiles = [n \in DOMAIN c.Profiles \ {name} |-> c.Profiles[n]]]]

\* Config.DeleteProfile(name): the error returned and the Config afterwards
DeleteProfile(c, name) ==
    IF name \notin DOMAIN c.Profiles
    THEN [err |-> "ErrProfileNotFound", name |-> name, cfg |-> c]
    ELSE [err |-> "", name |-> name,
          cfg |-> [c EXCEPT !.Profiles = [n \in DOMAIN c.Profiles \ {name} |-> c.Profiles[n]]]]

\* Config.ListProfiles(): the names, in no particular order
ListProfiles(c) == {n \in DOMAIN c.Profiles : TRUE}

\* Config.HasProfile(name)
HasProfile(c, name) == name \in DOMAIN c.Profiles

(***************************************************************************)
(* A Config made by NewConfig (with any defaults) and edited by a sequence *)
(* of SetProfile and DeleteProfile calls. cli.last records, for each name, *)
(* the last call on it that returned without an error.                     *)
(***************************************************************************)
InitProfiles ==
    /\ FlowIdle
    /\ \E c \in {k \in Configs : DOMAIN k.Profiles = {}} \cup {NewConfig} :
          cli = [cmd |-> "profiles", cfg |-> c,
                 last |-> [n \in {"prod", "dev"} |-> "none"],
                 result |-> [op |-> "none", name |-> "", err |-> ""]]

callSetProfile ==
    /\ cli.cmd = "profiles"
    /\ \E name \in {"prod", "dev"}, profile \in ProfileValues :
          cli' = [cli EXCEPT !.cfg = SetProfile(cli.cfg, name, profile),
                             !.last = [cli.last EXCEPT ![name] = "set"],
                             !.result = [op |-> "set", name |-> name, err |-> ""]]
    /\ UNCHANGED <<flowVars, mfaVars>>

callDeleteProfile ==
    /\ cli.cmd = "profiles"
    /\ \E name \in {"prod", "dev"} :
          LET r == DeleteProfile(cli.cfg, name) IN
          cli' = [cli EXCEPT !.cfg = r.cfg,
                             !.last = IF r.err = "" THEN [cli.last EXCEPT ![name] = "delete"]
                                      ELSE cli.last,
                             !.result = [op |-> "delete", name |-> name, err |-> r.err]]
    /\ UNCHANGED <<flowVars, mfaVars>>

NextProfiles == callSetProfile \/ callDeleteProfile
SpecProfiles == InitProfiles /\ [][NextProfiles]_vars

InitConfig ==
    /\ FlowIdle
    /\ \E c \in Configs :
          cli = [cmd |-> "config", pc |-> "start", cfg |-> c,
                 file |-> [exists |-> FALSE, doc |-> {}],
                 loaded |-> [err |-> "none", cfg |-> NewConfig],
                 merged |-> [err |-> "none", name |-> "", profile |-> [Name |-> ""]],
                 prior |-> [exists |-> FALSE, doc |-> {}],
                 flags |-> [id |-> FALSE, region |-> "", output |-> "", sessionDuration |-> 0],
                 input |-> [url |-> "", appID |-> "", username |-> "", region |-> "",
                            output |-> "", duration |-> ""],
                 result |-> ""]

\* SaveConfig(cfg, path)
SaveConfig ==
    /\ cli.cmd = "config" /\ cli.pc = "start"
    /\ UNCHANGED <<flowVars, mfaVars>>
    /\ \/ cli' = [cli EXCEPT !.pc = "done", !.result = "failed to write config file"]
       \/ cli' = [cli EXCEPT !.pc = "saved",
                             !.file = [exists |-> TRUE, doc |-> Marshal(cli.cfg)]]

\* a call of LoadConfig(path) on the path as it is
callLoadConfig ==
    /\ cli.cmd = "config" /\ cli.pc \in {"start", "saved"}
    /\ UNCHANGED <<flowVars, mfaVars>>
    /\ cli' = [cli EXCEPT !.pc = "loaded", !.loaded = LoadConfig(cli.file)]

\* a call of GetProfile(name) on the configuration in memory
callGetProfile ==
    /\ cli.cmd = "config" /\ cli.pc \in {"start", "loaded"}
    /\ cli.pc = "loaded" => cli.loaded.err = ""
    /\ UNCHANGED <<flowVars, mfaVars>>
    /\ \E name \in {"prod", "dev", "nonexistent"} :
          cli' = [cli EXCEPT !.pc = "done",
                             !.merged = ConfigGetProfile(IF cli.pc = "start" THEN cli.cfg
                                                         ELSE cli.loaded.cfg, name)]

\* Prompter.PromptString: the trimmed input, or the default when it is empty
PromptString(defaultValue, input) == IF input = "" THEN defaultValue ELSE input

\* fmt.Sprintf("%d", n) for n >= 0
RECURSIVE Sprintf_d(_)
Sprintf_d(n) ==
    LET digit == <<"0", "1", "2", "3", "4", "5", "6", "7", "8", "9">>[(n % 10) + 1]
    IN  IF n < 10 THEN digit ELSE Sprintf_d(n \div 10) \o digit

\* the flags of configure that are tried, and what the user types at the
\* six prompts ("": the offered default is accepted)
ConfigureFlags ==
    [id : BOOLEAN, region : {"", "ap-northeast-1"}, output : {"", "text"},
     sessionDuration : {0, 100, 7200}]
ConfigureInputs ==
    LET none == [url |-> "", appID |-> "", username |-> "", region |-> "",
                 output |-> "", duration |-> ""]
    IN  {none, [none EXCEPT !.url = "https://other"], [none EXCEPT !.region = "eu-west-1"],
         [none EXCEPT !.output = "table"], [none EXCEPT !.duration = "1800"],
         [none EXCEPT !.duration = "100"], [none EXCEPT !.duration = "soon"]}

ConfigureReturn(result, flags, input, file) ==
    cli' = [cli EXCEPT !.pc = "configured", !.result = result, !.prior = cli.file,
                       !.flags = flags, !.input = input, !.file = file]

\* runConfigure for the profile "prod"
runConfigure ==
    /\ cli.cmd = "config" /\ cli.pc \in {"start", "saved"}
    /\ UNCHANGED <<flowVars, mfaVars>>
    /\ \E flags \in ConfigureFlags, input \in ConfigureInputs :
       LET cfg == LoadConfig(cli.file).cfg
           has == "prod" \in DOMAIN cfg.Profiles
           mp == ConfigGetProfile(cfg, "prod").profile
           existing == IF has THEN [URL |-> mp.URL, AppID |-> mp.AppID,
                                    Username |-> mp.Username, RoleARN |-> mp.RoleARN,
                                    Region |-> mp.Region, Output |-> mp.Output,
                                    SessionDuration |-> mp.SessionDuration]
                       ELSE [URL |-> "", AppID |-> "", Username |-> "", RoleARN |-> "",
                             Region |-> "", Output |-> "", SessionDuration |-> 0]
           flagURL == IF flags.id THEN "https://flag" ELSE ""
           flagAppID == IF flags.id THEN "app-flag" ELSE ""
           flagUsername == IF flags.id THEN "flag@example.com" ELSE ""
           nonInteractive == flagURL # "" /\ flagAppID # "" /\ flagUsername # ""
           defaultRegion ==
               LET d == IF flags.region # "" THEN flags.region ELSE existing.Region
               IN  IF d = "" THEN cfg.Defaults.Region ELSE d
           defaultOutput ==
               LET d == IF flags.output # "" THEN flags.output ELSE existing.Output
               IN  IF d = "" THEN "json" ELSE d
           defaultSessionDuration ==
               LET d == IF flags.sessionDuration > 0 THEN flags.sessionDuration
                        ELSE existing.SessionDuration
               IN  IF d = 0 THEN cfg.Defaults.SessionDuration ELSE d
           sessionDurationInput == PromptString(Sprintf_d(defaultSessionDuration), input.duration)
           scanned == {n \in {0, 100, 1800, 3600, 7200} : Sprintf_d(n) = sessionDurationInput}
           sessionDuration == IF sessionDurationInput = "" THEN defaultSessionDuration
                              ELSE CHOOSE n \in scanned : TRUE
           newProfile ==
               IF nonInteractive
               THEN [URL |-> flagURL, AppID |-> flagAppID, Username |-> flagUsername,
                     RoleARN |-> "", Region |-> flags.region, Output |-> flags.output,
                     SessionDuration |-> flags.sessionDuration]
               ELSE [URL |-> PromptString(existing.URL, input.url),
                     AppID |-> PromptString(existing.AppID, input.appID),
                     Username |-> PromptString(existing.Username, input.username),
                     RoleARN |-> "",
                     Region |-> PromptString(defaultRegion, input.region),
                     Output |-> PromptString(defaultOutput, input.output),
                     SessionDuration |-> sessionDuration]
           set == [cfg EXCEPT !.Profiles =
                      [n \in DOMAIN cfg.Profiles \cup {"prod"} |->
                          IF n = "prod" THEN newProfile ELSE cfg.Profiles[n]]]
       IN  IF ~nonInteractive /\ sessionDurationInput # "" /\ scanned = {}
           THEN ConfigureReturn("invalid session duration", flags, input, cli.file)
           ELSE IF /\ ~nonInteractive /\ sessionDurationInput # ""
                   /\ (sessionDuration < 900 \/ sessionDuration > 43200)
           THEN ConfigureReturn("session duration must be between 900 and 43200 seconds",
                                flags, input, cli.file)
           ELSE IF newProfile.URL = ""
           THEN ConfigureReturn("URL is required", flags, input, cli.file)
           ELSE IF newProfile.AppID = ""
           THEN ConfigureReturn("App ID is required", flags, input, cli.file)
           ELSE IF newProfile.Username = ""
           THEN ConfigureReturn("Username is required", flags, input, cli.file)
           ELSE IF /\ newProfile.SessionDuration > 0
                   /\ (newProfile.SessionDuration < 900 \/ newProfile.SessionDuration > 43200)
           THEN ConfigureReturn("session duration must be between 900 and 43200 seconds",
                                flags, input, cli.file)
           ELSE \/ ConfigureReturn("failed to read input", flags, input, cli.file)
                \/ ConfigureReturn("failed to save config", flags, input, cli.file)
                \/ ConfigureReturn("", flags, input, [exists |-> TRUE, doc |-> Marshal(set)])

NextConfig ==
    \/ SaveConfig
    \/ callLoadConfig
    \/ callGetProfile
    \/ runConfigure
SpecConfig == InitConfig /\ [][NextConfig]_vars

(***************************************************************************)
(* Properties.                                                             *)
(***************************************************************************)
\* a pass has dispatched the snapshot
Dispatched == handler # "none"
\* one of the four marker substrings is in the snapshot
HasMarker == snap.text \cap Markers # {}
\* the snapshot has a form and a hidden or SAMLResponse input
HasHiddenForm ==
    /\ snap.form.present
    /\ \E f \in {DocInputs(snap)[i] : i \in 1..Len(DocInputs(snap))} :
          f.hidden \/ f.name = "SAMLResponse"
\* the snapshot's $Config parses and holds an error code
CarriesErrorCode == snap.cfg.state = "ok" /\ snap.cfg.SErrorCode # ""
Unrecognized == Err("", "reached unknown authentication state", "", "")

\* C1 as stated: whenever the form of a dispatched response holds a
\* SAMLResponse field with value V, Authenticate has returned V and the pass
\* has issued no request.
C1_AnySAMLResponseReturned ==
    \A i \in 1..Len(snap.form.inputs) :
        (Dispatched /\ snap.form.present /\ snap.form.inputs[i].name = "SAMLResponse")
            => /\ pc = "done"
               /\ out = Result(snap.form.inputs[i].value, NoErr)
               /\ sent = <<>>

\* C1 amended: when the dispatched response holds none of the four markers
\* and the first SAMLResponse input of the page, a field of its form, has a
\* non-empty value V, Authenticate has returned exactly V and the pass has
\* issued no request.
C1_TerminalAssertionReturned ==
    \A i \in 1..Len(snap.form.inputs) :
        (/\ Dispatched
         /\ ~HasMarker
         /\ snap.form.present
         /\ snap.form.inputs[i].name = "SAMLResponse"
         /\ snap.form.inputs[i].value # ""
         /\ \A j \in 1..(i - 1) : snap.form.inputs[j].name # "SAMLResponse")
            => /\ pc = "done"
               /\ out = Result(snap.form.inputs[i].value, NoErr)
               /\ sent = <<>>

C1_Witness ==
    /\ handler = "HiddenForm"
    /\ pc = "done"
    /\ out = Result("assertion1", NoErr)
    /\ Len(snap.form.inputs) = 2
    /\ snap.form.inputs[1].name = "RelayState"

\* C2: Authenticate returns a non-empty assertion with no error, the whole
\* value of a SAMLResponse field of the last response, or an error with an
\* empty result; before it returns there is no result.
C2_AllOrNothing ==
    /\ pc # "done" => out = NoResult
    /\ pc = "done" =>
          \/ /\ out.err = NoErr
             /\ out.assertion # ""
             /\ \E i \in 1..Len(DocInputs(snap)) :
                   /\ DocInputs(snap)[i].name = "SAMLResponse"
                   /\ DocInputs(snap)[i].value = out.assertion
          \/ /\ out.err # NoErr
             /\ out.assertion = ""

C2_Witness ==
    /\ pc = "done"
    /\ out = Result("assertion2", NoErr)
    /\ \E i \in 1..Len(snap.form.inputs) :
          snap.form.inputs[i].name = "SAMLResponse" /\ snap.form.inputs[i].value = ""

\* C3: the case taken for a response is the first, in the order
\* ConvergedSignIn, ConvergedTFA, KmsiInterrupt, SAMLRequest, hidden form,
\* whose marker the response holds, and the default case when it holds none.
Priority == <<"ConvergedSignIn", "ConvergedTFA", "KmsiInterrupt", "SAMLRequest", "HiddenForm">>
MarkerPresent(k) == IF Priority[k] = "HiddenForm" THEN HasHiddenForm ELSE Priority[k] \in snap.text
C3_PriorityDispatch ==
    Dispatched =>
        /\ \A k \in 1..Len(Priority) :
              handler = Priority[k] =>
                  MarkerPresent(k) /\ \A j \in 1..(k - 1) : ~MarkerPresent(j)
        /\ handler = "default" => \A k \in 1..Len(Priority) : ~MarkerPresent(k)
        /\ handler \in {Priority[k] : k \in 1..Len(Priority)} \cup {"default"}

C3_Witness ==
    /\ handler = "ConvergedTFA"
    /\ snap.text = {"ConvergedTFA", "KmsiInterrupt", "SAMLRequest", ErrorKey}
    /\ HasHiddenForm

\* C4: a dispatched response with none of the five markers and no server
\* error code ends Authenticate with the unrecognized-state error, and the
\* pass issues no request.
C4_UnrecognizedState ==
    (Dispatched /\ ~HasMarker /\ ~HasHiddenForm /\ ~CarriesErrorCode)
        => /\ pc = "done"
           /\ out = Result("", Unrecognized)
           /\ sent = <<>>

C4_Witness ==
    /\ handler = "default"
    /\ out.err = Unrecognized
    /\ ErrorKey \in snap.text
    /\ snap.cfg.state = "ok"
    /\ snap.cfg.SErrorCode = ""

\* C5: in the fallback branch a server error code other than 50058 ends
\* Authenticate with an authentication error carrying that code and its
\* text; no code, or the code 50058, ends it with the unrecognized-state
\* error.
C5_FallbackError ==
    (Dispatched /\ ~HasMarker /\ ~HasHiddenForm)
        => /\ pc = "done"
           /\ out.assertion = ""
           /\ sent = <<>>
           /\ IF CarriesErrorCode /\ snap.cfg.SErrorCode # "50058"
              THEN out.err = Err("", "authentication error", snap.cfg.SErrorCode, snap.cfg.SErrTxt)
              ELSE out.err = Unrecognized

C5_Witness ==
    /\ handler = "default"
    /\ out.err = Err("", "authentication error", "50126", "text of 50126")

\* C6: when the credential-type answer holds a federation redirect URL, the
\* next request of the handler is the GET of that URL, and no request of the
\* pass posts the password to the page's post-back URL.
C6_FederatedNoPasswordPost ==
    (handler = "ConvergedSignIn" /\ credTypeResp # NoURL)
        => /\ Len(sent) >= 2
           /\ sent[2].method = "GET"
           /\ sent[2].url = credTypeResp
           /\ \A i \in 1..Len(sent) :
                 ~(/\ sent[i].method = "POST"
                   /\ sent[i].url = fullURL(snap.cfg.URLPost)
                   /\ \E pr \in sent[i].body : pr[1] = "passwd")

C6_Witness ==
    /\ handler = "ConvergedSignIn"
    /\ credTypeResp # NoURL
    /\ Len(sent) = 3
    /\ sent[3].method = "POST"
    /\ <<"Password", "pw">> \in sent[3].body
    /\ pc = "read"

\* C7: for a non-empty list of User Proofs (and no skip URL) the
\* begin-challenge request names the method of the first entry flagged
\* default when an entry is flagged, and of the first entry otherwise.
C7_DefaultElseFirst ==
    (/\ handler = "ConvergedTFA"
     /\ snap.cfg.state = "ok"
     /\ snap.cfg.URLSkipMfaRegistration = NoURL
     /\ Len(snap.cfg.ArrUserProofs) > 0)
        => LET proofs == snap.cfg.ArrUserProofs
               flagged == {i \in 1..Len(proofs) : proofs[i].IsDefault}
           IN  /\ sent # <<>>
               /\ sent[1].url = snap.cfg.URLBeginAuth
               /\ <<"Method", "BeginAuth">> \in sent[1].body
               /\ IF flagged = {}
                  THEN <<"AuthMethodId", proofs[1].AuthMethodID>> \in sent[1].body
                  ELSE \E i \in flagged :
                          /\ \A j \in flagged : i <= j
                          /\ <<"AuthMethodId", proofs[i].AuthMethodID>> \in sent[1].body

C7_Witness ==
    LET proofs == snap.cfg.ArrUserProofs IN
    /\ handler = "ConvergedTFA"
    /\ Len(proofs) = 3
    /\ ~proofs[1].IsDefault /\ ~proofs[2].IsDefault /\ proofs[3].IsDefault
    /\ proofs[3].AuthMethodID # proofs[1].AuthMethodID
    /\ sent # <<>>
    /\ <<"AuthMethodId", proofs[3].AuthMethodID>> \in sent[1].body

\* the interval the page advertises for method id m, else the default, in
\* milliseconds
AdvertisedOrDefault(m) ==
    LET iv == snap.cfg.OPerAuthPollingInterval IN
    IF \E pr \in iv : pr[1] = m THEN (CHOOSE pr \in iv : pr[1] = m)[2] ELSE DefaultPollMs

\* the last end-challenge call was answered: mfaResp is its answer
EndAnswered ==
    /\ handler = "ConvergedTFA"
    /\ endCalls > 0
    /\ ~(pc = "done" /\ out.err.kind \in {"MFA EndAuth request failed",
                                          "failed to decode MFA EndAuth response",
                                          "failed to read verification code"})

\* C8: while the server answers retry, the driver has made one
\* end-challenge call per answer and slept once after each, each time for
\* the interval advertised for the method id (the default when none is);
\* after the success answer it has made one call more than it slept and has
\* posted the completion form of that answer.
C8_PollCallsAndSleeps ==
    /\ pc = "mfa" =>
          /\ endCalls = mfaIter
          /\ sleeps = mfaIter
          /\ sleeps > 0 => lastSleep = AdvertisedOrDefault(mfaResp.AuthMethodID)
    /\ (EndAnswered /\ mfaResp.Success /\ mfaResp.ErrCode = 0) =>
          /\ pc # "mfa"
          /\ endCalls = sleeps + 1
          /\ Len(sent) = 2
          /\ <<"request", mfaResp.Ctx>> \in sent[2].body

\* C9: once an end-challenge answer carries a nonzero error code, whatever
\* its other flags, Authenticate has failed with that code and message, and
\* the driver has made no further call, not slept and posted no completion
\* form.
C9_HardErrorStops ==
    (EndAnswered /\ mfaResp.ErrCode # 0)
        => /\ pc = "done"
           /\ out = Result("", Err("ConvergedTFA", "MFA error", "500121", mfaResp.Message))
           /\ Len(sent) = 1
           /\ sent[1].url = snap.cfg.URLEndAuth
           /\ endCalls = mfaIter + 1
           /\ sleeps = mfaIter

C9_Witness ==
    /\ handler = "ConvergedTFA"
    /\ endCalls = 2
    /\ mfaResp.ErrCode # 0
    /\ mfaResp.Success
    /\ mfaResp.Retry
    /\ pc = "done"

\* the counts of C8 alone: one end-challenge call per answer, one sleep
\* after each retryable answer and none after the last
PollCounts ==
    /\ pc = "mfa" => endCalls = mfaIter /\ sleeps = mfaIter
    /\ (EndAnswered /\ pc # "mfa") => endCalls = mfaIter + 1 /\ sleeps = mfaIter

\* C10: the form a relay handler posts holds exactly the name/value pairs of
\* the named fields of the source form.
C10_RelayRoundTrip ==
    (handler \in {"SAMLRequest", "HiddenForm"} /\ sent # <<>>)
        => sent[1].body =
              {<<snap.form.inputs[i].name, snap.form.inputs[i].value>> :
                  i \in {k \in 1..Len(snap.form.inputs) : snap.form.inputs[k].name # ""}}

\* C11: a pass that does not end Authenticate has issued a request, and res
\* is the response to it, not the snapshot the pass was given; Authenticate
\* ends with an assertion or an error.
C11_FreshSnapshotEachPass ==
    /\ pc = "read" => (res = "net" /\ sent # <<>>)
    /\ pc = "done" => out # NoResult

\* the one way a pass hands its snapshot back: a ConvergedTFA page whose
\* $Config parses, with no skip-registration URL and no User Proofs
HandBackOnlyFromTFA ==
    (pc = "read" /\ (res # "net" \/ sent = <<>>))
        => /\ handler = "ConvergedTFA"
           /\ snap.cfg.state = "ok"
           /\ snap.cfg.URLSkipMfaRegistration = NoURL
           /\ snap.cfg.ArrUserProofs = <<>>

\* C12: the case a pass takes was taken by no earlier pass of the run, and
\* no case was taken by two earlier passes.
C12_NoStateRevisited ==
    /\ Dispatched => \A i \in 1..Len(trail) : trail[i] # handler
    /\ \A i \in 1..Len(trail) : \A j \in 1..Len(trail) : trail[i] = trail[j] => i = j

\* C13: redirect-following is enabled at every point between handlers and
\* when Authenticate has returned, after a KmsiInterrupt pass that succeeded
\* and after one whose request failed alike; the only request sent with
\* redirects disabled is the KmsiInterrupt handler's own post.
C13_RedirectsRestored ==
    /\ followRedirect = EnableFollowRedirect
    /\ \A i \in 1..Len(sent) :
          sent[i].follow = DisableFollowRedirect
              => (handler = "KmsiInterrupt" /\ sent[i].tag = "kmsi")
    /\ handler = "KmsiInterrupt" => \A i \in 1..Len(sent) : sent[i].follow = DisableFollowRedirect

C13_Witness ==
    /\ handler = "KmsiInterrupt"
    /\ pc = "done"
    /\ netErr # NoReq
    /\ netErr.follow = DisableFollowRedirect
    /\ followRedirect = EnableFollowRedirect

\* C14: the request for which the HTTP client returned an error was sent
\* once, it is the last request of the run, and Authenticate has returned a
\* failure.
C14_TransportFailureNotRetried ==
    netErr # NoReq
        => /\ pc = "done"
           /\ out.assertion = ""
           /\ out.err # NoErr
           /\ sent # <<>>
           /\ sent[Len(sent)] = netErr
           /\ Cardinality({i \in 1..Len(sent) : sent[i] = netErr}) = 1
           /\ handler = "ConvergedTFA" => endCalls <= mfaIter + 1

C14_Witness ==
    /\ netErr.tag = "adfsLogin"
    /\ Len(sent) = 3
    /\ pc = "done"
    /\ passes = 2

\* the page lacks what the handler of the pass reads first: the $Config
\* object for the three Converged handlers, the form or its action for the
\* two relay handlers
MissingElement ==
    \/ /\ handler \in {"ConvergedSignIn", "ConvergedTFA", "KmsiInterrupt"}
       /\ snap.cfg.state # "ok"
    \/ /\ handler = "SAMLRequest"
       /\ (~snap.form.present \/ snap.form.action = NoURL)
    \/ /\ handler = "HiddenForm"
       /\ snap.form.action = NoURL
       /\ \A i \in 1..Len(DocInputs(snap)) :
             DocInputs(snap)[i].name = "SAMLResponse"
                 => \E j \in 1..i : /\ DocInputs(snap)[j].name = "SAMLResponse"
                                    /\ DocInputs(snap)[j].value = ""
                                    /\ \A k \in 1..(j - 1) : DocInputs(snap)[k].name # "SAMLResponse"

\* C15: a pass whose page lacks the element its handler needs ends
\* Authenticate with a failure and issues no request; the federated handler,
\* whose ADFS page lacks the form or its action, fails after the federation
\* GET without posting; and no relay or ADFS post goes to the URL an empty
\* action resolves to.
C15_MissingElementFails ==
    /\ MissingElement
          => /\ pc = "done"
             /\ out.assertion = ""
             /\ out.err # NoErr
             /\ sent = <<>>
             /\ netErr = NoReq
    /\ (pc = "done" /\ out.err.kind \in {"failed to parse ADFS form", "ADFS form submit URL not found"})
          => /\ handler = "ConvergedSignIn"
             /\ Len(sent) = 2
             /\ sent[2].tag = "federationGet"
             /\ netErr = NoReq
    /\ \A i \in 1..Len(sent) :
          sent[i].tag \in {"adfsLogin", "samlRequest", "form"}
              => sent[i].url \notin {SelfURL, NoURL}

C15_Witness ==
    /\ handler = "SAMLRequest"
    /\ snap.form.present
    /\ snap.form.action = NoURL
    /\ Len(snap.form.inputs) = 2
    /\ pc = "done"
    /\ out.err.kind = "SAML request form URL not found"

\* the name authenticate puts in front of the errors of each case
StepName(h) ==
    CASE h = "ConvergedSignIn" -> "ConvergedSignIn"
      [] h = "ConvergedTFA" -> "ConvergedTFA"
      [] h = "KmsiInterrupt" -> "KmsiInterrupt"
      [] h = "SAMLRequest" -> "SAMLRequest"
      [] h = "HiddenForm" -> "form reprocessing"
      [] OTHER -> ""

\* C16: a failure returned while one of the five page-type handlers was
\* running carries the name of that handler's step, on every failure path.
C16_FailureNamesStep ==
    (pc = "done" /\ out.err # NoErr /\ Dispatched /\ handler # "default")
        => /\ out.err.step = StepName(handler)
           /\ out.err.step # ""

C16_Witness ==
    /\ pc = "done"
    /\ handler = "HiddenForm"
    /\ out.err = Err("form reprocessing", "form URL not found", "", "")

\* C17: with nil credentials, an empty username or an empty password
\* Authenticate has failed without any request and without entering the
\* loop; otherwise the first request is the GET of
\* <base>/applications/redirecttofederatedapplication.aspx?Operation=LinkedSignIn&applicationId=<id>.
C17_CredentialsValidatedFirst ==
    /\ (pc # "call" /\ (creds.nil \/ creds.Username = "" \/ creds.Password = ""))
          => /\ pc = "done"
             /\ out.assertion = ""
             /\ out.err # NoErr
             /\ sent = <<>>
             /\ passes = 0
             /\ netErr = NoReq
    /\ (pc # "call" /\ ~creds.nil /\ creds.Username # "" /\ creds.Password # "" /\ passes = 0)
          => \/ pc = "top" /\ sent = <<>>
             \/ /\ pc \in {"read", "done"}
                /\ Len(sent) = 1
                /\ sent[1].method = "GET"
                /\ sent[1].body = {}
                /\ sent[1].url.id =
                      "https://account.activedirectory.windowsazure.com"
                      \o "/applications/redirecttofederatedapplication.aspx?Operation=LinkedSignIn&applicationId="
                      \o "app"

C17_Witness ==
    /\ pc = "done"
    /\ ~creds.nil
    /\ creds.Username = "user"
    /\ creds.Password = ""
    /\ out.err.kind = "password is required"
    /\ sent = <<>>

\* C18: the duration sent with the assume-role request is the profile's
\* session_duration when set, else the assertion's duration when present,
\* else the default session_duration (that of the configuration's defaults,
\* 3600 when it sets none).
C18_DurationPriority ==
    (cli.cmd = "login" /\ cli.assumed)
        => cli.durationSeconds =
              IF cli.profileDuration > 0 THEN cli.profileDuration
              ELSE IF cli.samlDuration > 0 THEN cli.samlDuration
              ELSE IF cli.defaultsDuration > 0 THEN cli.defaultsDuration
              ELSE 3600

\* the order the code follows: the profile's session_duration, else the
\* defaults' session_duration of the configuration, else the assertion's
\* duration, else 3600
DurationOrderOfCode ==
    (cli.cmd = "login" /\ cli.assumed)
        => cli.durationSeconds =
              IF cli.profileDuration > 0 THEN cli.profileDuration
              ELSE IF cli.defaultsDuration > 0 THEN cli.defaultsDuration
              ELSE IF cli.samlDuration > 0 THEN cli.samlDuration
              ELSE 3600

\* C19: a login that found its profile skips authentication exactly when
\* --force is not given and the stored credentials exist, have an
\* expiration and do not expire within the next 15 minutes.
C19_SkipWithinFifteenMinutes ==
    (cli.cmd = "login" /\ cli.pc = "done" /\ cli.configLoads /\ cli.profileExists)
        => /\ cli.skipped <=> (/\ ~cli.force
                               /\ cli.stored.present
                               /\ cli.stored.hasExpiration
                               /\ cli.stored.remaining >= 15)
           /\ cli.skipped => cli.authCalls = 0

\* the margin the code applies is 5 minutes
SkipMarginOfCode ==
    (cli.cmd = "login" /\ cli.pc = "done" /\ cli.configLoads /\ cli.profileExists)
        => /\ cli.skipped <=> (/\ ~cli.force
                               /\ cli.stored.present
                               /\ cli.stored.hasExpiration
                               /\ cli.stored.remaining >= 5)
           /\ cli.skipped => cli.authCalls = 0

\* C20: when update has touched the installed binary, the downloaded
\* archive's digest was verified against the release's checksum list.
C20_InstallOnlyAfterVerification ==
    (cli.cmd = "update" /\ cli.binary # "old")
        => /\ cli.verified
           /\ cli.checksums.ok
           /\ \E i \in 1..Len(cli.checksums.lines) :
                 cli.checksums.lines[i] = <<cli.digest, archiveName>>

\* what the code ensures: a checksum list that the release carries is
\* checked before the binary is touched
InstallAfterListedChecksum ==
    (cli.cmd = "update" /\ cli.binary # "old" /\ checksumName \in cli.assets)
        => /\ cli.verified
           /\ cli.checksums.ok
           /\ \E i \in 1..Len(cli.checksums.lines) :
                 cli.checksums.lines[i] = <<cli.digest, archiveName>>

\* the file a path names can be run and is one whole binary
Usable(i) ==
    /\ i # "none"
    /\ cli.inodes[i].executable
    /\ \E c \in {"old", "A", "B"} : cli.inodes[i].data = WholeFile(c)
InProgress(p) == cli.proc[p].pc \notin {"start", "done"}

\* C21: at every moment of an update the executable path names a whole,
\* runnable binary, the old one or a new one.
C21_ExecutableAlwaysUsable ==
    cli.cmd = "install" => Usable(cli.paths.exec)

\* what does hold with one updater at a time: the old binary is lost from
\* neither path before a whole new one is in place
OldKeptUntilNewInPlace ==
    (cli.cmd = "install" /\ cli.proc["B"].pc = "start")
        => \/ cli.paths.exec = "old"
           \/ cli.paths.backup = "old"
           \/ Usable(cli.paths.exec)

\* C22: at most one update is in progress at a time, and the backup path
\* only ever holds the binary that was installed before the updates.
C22_OneUpdateAtATime ==
    cli.cmd = "install"
        => /\ ~(InProgress("A") /\ InProgress("B"))
           /\ cli.paths.backup \in {"none", "old"}

\* the configuration the last GetProfile call was made on
GetProfileReceiver == IF cli.loaded.err = "none" THEN cli.cfg ELSE cli.loaded.cfg

\* C23: GetProfile of a stored name gives the profile's region when
\* non-empty, else the defaults' region; the profile's session duration when
\* greater than zero, else the defaults'; every other field as stored; for a
\* name that is not stored, ErrProfileNotFound and no profile.
C23_MergePerField ==
    (cli.cmd = "config" /\ cli.merged.err # "none") =>
        LET c == GetProfileReceiver
            n == cli.merged.name
            m == cli.merged.profile
        IN  IF n \in DOMAIN c.Profiles
            THEN /\ cli.merged.err = ""
                 /\ m.Name = n
                 /\ (c.Profiles[n].Region # "" => m.Region = c.Profiles[n].Region)
                 /\ (c.Profiles[n].Region = "" => m.Region = c.Defaults.Region)
                 /\ (c.Profiles[n].SessionDuration > 0
                        => m.SessionDuration = c.Profiles[n].SessionDuration)
                 /\ (c.Profiles[n].SessionDuration <= 0
                        => m.SessionDuration = c.Defaults.SessionDuration)
                 /\ \A f \in {"URL", "AppID", "Username", "RoleARN", "Output"} :
                       m[f] = c.Profiles[n][f]
            ELSE /\ cli.merged.err = "ErrProfileNotFound"
                 /\ DOMAIN m = {"Name"} /\ m.Name = ""

\* a stored profile without region and duration was merged with defaults
\* that set both
C23_Witness ==
    /\ cli.cmd = "config" /\ cli.merged.err = ""
    /\ GetProfileReceiver.Profiles[cli.merged.name].Region = ""
    /\ GetProfileReceiver.Profiles[cli.merged.name].SessionDuration = 0
    /\ GetProfileReceiver.Profiles[cli.merged.name].RoleARN # ""
    /\ cli.merged.profile.Region = "ap-northeast-1"
    /\ cli.merged.profile.SessionDuration = 1800

\* C24: LoadConfig of a path just written by SaveConfig gives the same
\* defaults and the same profiles with the same field values; LoadConfig of
\* a path that does not exist gives ErrConfigNotFound.
C24_SaveLoadRoundTrip ==
    (cli.cmd = "config" /\ cli.pc = "loaded") =>
        IF cli.file.exists
        THEN /\ cli.loaded.err = ""
             /\ cli.loaded.cfg.Defaults = cli.cfg.Defaults
             /\ DOMAIN cli.loaded.cfg.Profiles = DOMAIN cli.cfg.Profiles
             /\ \A n \in DOMAIN cli.cfg.Profiles :
                   cli.loaded.cfg.Profiles[n] = cli.cfg.Profiles[n]
        ELSE cli.loaded.err = "ErrConfigNotFound"

\* a configuration with empty defaults and a profile with omitted fields
\* was saved and loaded
C24_Witness ==
    /\ cli.cmd = "config" /\ cli.pc = "loaded" /\ cli.file.exists
    /\ cli.cfg.Defaults = [Region |-> "", SessionDuration |-> 0]
    /\ DOMAIN cli.cfg.Profiles = {"prod", "dev"}
    /\ cli.cfg.Profiles["prod"].Region = ""
    /\ cli.cfg.Profiles["prod"].SessionDuration = 7200
    /\ cli.loaded.cfg.Profiles["prod"].SessionDuration = 7200

\* configure ran on a stored profile "prod" without the three identity
\* flags, every offered default was accepted, and the profile was saved
ConfigureAcceptedDefaults ==
    /\ cli.cmd = "config" /\ cli.pc = "configured" /\ cli.result = ""
    /\ cli.prior.exists /\ "prod" \in DOMAIN LoadConfig(cli.prior).cfg.Profiles
    /\ ~cli.flags.id
    /\ \A f \in DOMAIN cli.input : cli.input[f] = ""

\* C26: configure on an existing profile that changes only the settings
\* given by flags, the offered defaults accepted elsewhere, leaves the
\* stored url, app_id, username and role_arn of the profile unchanged.
C26_ConfigureKeepsOtherFields ==
    ConfigureAcceptedDefaults =>
        LET before == LoadConfig(cli.prior).cfg.Profiles["prod"]
            after == LoadConfig(cli.file).cfg.Profiles["prod"]
        IN  \A f \in {"URL", "AppID", "Username", "RoleARN"} : after[f] = before[f]

\* what the code keeps: url, app_id and username, and the profile's
\* effective region and session duration; role_arn is always cleared
ConfigureKeepsIdentityOnly ==
    ConfigureAcceptedDefaults =>
        LET old == LoadConfig(cli.prior).cfg
            new == LoadConfig(cli.file).cfg
            before == old.Profiles["prod"]
            after == new.Profiles["prod"]
        IN  /\ \A f \in {"URL", "AppID", "Username"} : after[f] = before[f]
            /\ after.RoleARN = ""
            /\ (cli.flags.region = ""
                   => after.Region = ConfigGetProfile(old, "prod").profile.Region)
            /\ (cli.flags.sessionDuration = 0
                   => after.SessionDuration
                        = ConfigGetProfile(old, "prod").profile.SessionDuration)
            /\ \A n \in DOMAIN old.Profiles \ {"prod"} : new.Profiles[n] = old.Profiles[n]

\* C25: when the stored credentials of the profile have expired, exec and
\* console return an error, run no subprocess and request no sign-in URL.
C25_ExpiredCredentialsNotUsed ==
    (/\ cli.cmd \in {"exec", "console"} /\ cli.pc = "done"
     /\ cli.stored.present /\ cli.stored.hasExpiration /\ cli.stored.remaining <= 0)
        => /\ cli.result # ""
           /\ ~cli.ran /\ ~cli.urlRequested /\ ~cli.opened

\* console stopped at credentials that expired ten minutes ago
C25_Witness ==
    /\ cli.cmd = "console" /\ cli.pc = "done"
    /\ cli.stored.present /\ cli.stored.hasExpiration /\ cli.stored.remaining = -10
    /\ ~cli.keysEmpty
    /\ cli.result = "credentials have expired"

\* the ConvergedSignIn handler has run on a page whose Session Context
\* carries an error code other than the benign one
SignInPageWithError ==
    /\ handler = "ConvergedSignIn"
    /\ pc \in {"read", "done"}
    /\ snap.cfg.state = "ok"
    /\ snap.cfg.SErrorCode \notin {"", BenignErrorCode}

\* C27: on such a page the handler fails and submits no credentials form,
\* neither the password form nor the ADFS form.
C27_ErrorCodeRejectedBeforeSubmit ==
    SignInPageWithError
        => /\ pc = "done"
           /\ \A i \in 1..Len(sent) : sent[i].tag \notin {"login", "adfsLogin"}

\* what the code ensures, on the direct password path only: no credentials
\* form, and the login error with the page's code once the credential-type
\* query was answered
DirectPathRejectsErrorCode ==
    (SignInPageWithError /\ ~(\E i \in 1..Len(sent) : sent[i].tag = "federationGet"))
        => /\ pc = "done"
           /\ \A i \in 1..Len(sent) : sent[i].tag \notin {"login", "adfsLogin"}
           /\ (netErr = NoReq /\ out.err.kind # "failed to get credential type")
                 => /\ out.err.kind = "login error"
                    /\ out.err.code = snap.cfg.SErrorCode

\* the requests of the current pass that carry the caller's password
CarryPassword ==
    {i \in 1..Len(sent) : \E pr \in sent[i].body : pr[2] = creds.Password}

\* C28: at most one request of a pass carries the password, and it is the
\* password form posted to the page's post-back URL or the ADFS form post;
\* no other request carries it.
C28_PasswordOnlyInLoginPost ==
    (~creds.nil /\ creds.Password # "")
        => /\ Cardinality(CarryPassword) <= 1
           /\ \A i \in CarryPassword :
                 /\ handler = "ConvergedSignIn"
                 /\ sent[i].method = "POST"
                 /\ \/ /\ sent[i].tag = "login"
                       /\ sent[i].url = fullURL(snap.cfg.URLPost)
                       /\ <<"passwd", creds.Password>> \in sent[i].body
                    \/ /\ sent[i].tag = "adfsLogin"
                       /\ <<"Password", creds.Password>> \in sent[i].body

\* the password form was posted after the credential-type query
C28_Witness ==
    /\ handler = "ConvergedSignIn"
    /\ Len(sent) = 2
    /\ sent[1].tag = "getCredentialType"
    /\ CarryPassword = {2}
    /\ sent[2].tag = "login"
    /\ pc = "read"

\* C29: the polling loop is entered only with a begin-challenge answer
\* marked success; otherwise the flow fails at the begin call: no
\* end-challenge call and no completion post are made.
C29_BeginFailureStops ==
    /\ (pc = "mfa" /\ endCalls = 0 /\ prompts = <<>>) => mfaResp.Success
    /\ (/\ handler = "ConvergedTFA"
        /\ Len(sent) >= 1 /\ sent[1].tag = "beginAuth"
        /\ pc # "mfa")
           => /\ pc = "done"
              /\ out.assertion = ""
              /\ out.err.step = "ConvergedTFA"
              /\ endCalls = 0
              /\ Len(sent) = 1

\* the begin call was answered "not success" and the flow has failed
C29_Witness ==
    /\ handler = "ConvergedTFA"
    /\ pc = "done"
    /\ sent # <<>> /\ sent[1].tag = "beginAuth" /\ Len(sent) = 1
    /\ out.err.kind = "MFA BeginAuth failed"
    /\ out.err.msg = "pending"
    /\ endCalls = 0

\* the MFA exchange fields of an end-challenge request
ExchangeFields(r) ==
    {pr \in r.body : pr[1] \in {"AuthMethodId", "Ctx", "FlowToken", "SessionId"}}
\* the fields a request carries when it is built from the answer a
FieldsOf(a) ==
    {<<"AuthMethodId", a.AuthMethodID>>, <<"Ctx", a.Ctx>>, <<"FlowToken", a.FlowToken>>}
    \cup (IF a.SessionID # "" THEN {<<"SessionId", a.SessionID>>} ELSE {})
\* this step issues an end-challenge request
EndCallStep == pc = "mfa" /\ endCalls' = endCalls + 1

\* C30 as claimed: the first end-challenge request carries the method id,
\* context, flow token and session id of the begin answer, and every later
\* one carries the same four as the request before it.
C30_EndRequestsCarryBeginState ==
    [][EndCallStep =>
          /\ sent'[1].tag = "endAuth"
          /\ IF mfaIter = 0
             THEN ExchangeFields(sent'[1]) = FieldsOf(mfaResp)
             ELSE ExchangeFields(sent'[1]) = ExchangeFields(sent[1])]_vars

\* C30 as amended: every end-challenge request carries the method id,
\* context, flow token and session id of the latest answer of the
\* exchange: the begin answer on the first poll, the answer of the previous
\* end-challenge call on every later poll.
C30_EndRequestsCarryLatestState ==
    [][EndCallStep =>
          /\ sent'[1].tag = "endAuth"
          /\ sent[1].tag = IF mfaIter = 0 THEN "beginAuth" ELSE "endAuth"
          /\ ExchangeFields(sent'[1]) = FieldsOf(mfaResp)
          /\ sent'[1].url = snap.cfg.URLEndAuth]_vars

\* a second poll was made after an end answer that issued new tokens and
\* named another method
C30_Witness ==
    /\ pc = "mfa" /\ mfaIter = 2 /\ endCalls = 2
    /\ sent[1].tag = "endAuth"
    /\ <<"Ctx", "mfactx2">> \in sent[1].body
    /\ <<"AuthMethodId", MFAPhoneAppOTP>> \in sent[1].body
    /\ mfaResp.Ctx = "mfactx1"

\* C31: the completion form is posted only after an end-challenge answer
\* with success and error code zero; after an answer that is neither
\* successful nor retryable Authenticate has failed, with no completion
\* form and no further end-challenge call.
C31_CompletionOnlyAfterSuccess ==
    /\ (\E i \in 1..Len(sent) : sent[i].tag = "mfaComplete")
          => /\ EndAnswered
             /\ mfaResp.Success /\ mfaResp.ErrCode = 0
             /\ Len(sent) = 2 /\ sent[1].tag = "endAuth" /\ sent[2].tag = "mfaComplete"
    /\ (EndAnswered /\ ~mfaResp.Success /\ ~mfaResp.Retry)
          => /\ pc = "done"
             /\ out.assertion = "" /\ out.err # NoErr
             /\ \A i \in 1..Len(sent) : sent[i].tag # "mfaComplete"
             /\ endCalls = mfaIter + 1

\* the second end-challenge call was answered without success, error code
\* or retry
C31_Witness ==
    /\ EndAnswered
    /\ endCalls = 2
    /\ ~mfaResp.Success /\ ~mfaResp.Retry /\ mfaResp.ErrCode = 0
    /\ pc = "done"
    /\ out.err.kind = "MFA authentication failed"

\* C32: the loop ends at the first end-challenge answer that carries
\* success, a nonzero error code or no retry flag, and after an answer that
\* carries retry alone it goes on polling, however many answers came before.
C32_LoopEndsOnlyOnTerminalAnswer ==
    /\ (EndAnswered /\ (mfaResp.Success \/ mfaResp.ErrCode # 0 \/ ~mfaResp.Retry))
          => /\ pc # "mfa"
             /\ endCalls = mfaIter + 1
    /\ (EndAnswered /\ mfaResp.Retry /\ ~mfaResp.Success /\ mfaResp.ErrCode = 0)
          => /\ pc = "mfa"
             /\ endCalls = mfaIter
             /\ out = NoResult

\* two answers with retry alone were followed by a third that ended the
\* loop with success
C32_Witness ==
    /\ EndAnswered
    /\ endCalls = 3 /\ mfaIter = 2 /\ sleeps = 2
    /\ mfaResp.Success /\ mfaResp.ErrCode = 0
    /\ pc = "read"

\* the loop is still polling after as many retry answers as are tried
C32_StillPolling ==
    /\ pc = "mfa" /\ mfaIter = MaxPolls /\ endCalls = MaxPolls
    /\ mfaResp.Retry /\ ~mfaResp.Success

\* C33: when the page's Session Context supplies a skip-MFA-registration
\* URL, the ConvergedTFA handler issues one GET to that URL and nothing
\* else: no begin-challenge, end-challenge or completion request, whether
\* or not User Proofs are listed.
C33_SkipURLFollowedDirectly ==
    (/\ handler = "ConvergedTFA"
     /\ snap.cfg.state = "ok"
     /\ snap.cfg.URLSkipMfaRegistration # NoURL)
        => /\ Len(sent) = 1
           /\ sent[1].method = "GET"
           /\ sent[1].url = snap.cfg.URLSkipMfaRegistration
           /\ sent[1].body = {}
           /\ pc # "mfa"
           /\ endCalls = 0 /\ mfaResp = NoMFA /\ prompts = <<>> /\ hints = <<>>

\* the skip URL was followed on a page that lists User Proofs
C33_Witness ==
    /\ handler = "ConvergedTFA"
    /\ snap.cfg.state = "ok"
    /\ snap.cfg.URLSkipMfaRegistration # NoURL
    /\ Len(snap.cfg.ArrUserProofs) = 2
    /\ Len(sent) = 1 /\ sent[1].tag = "skipMfa"
    /\ pc = "read"

\* the additional auth data an end-challenge request carries ("": none)
AuthDataOf(r) ==
    IF \E pr \in r.body : pr[1] = "AdditionalAuthData"
    THEN (CHOOSE pr \in r.body : pr[1] = "AdditionalAuthData")[2]
    ELSE ""
OneTimeCodeMethods == {MFAPhoneAppOTP, MFAOneWaySMS}

\* C34: an end-challenge request for a one-time-code method (PhoneAppOTP,
\* OneWaySMS) carries the code the caller supplied, and the user is not
\* prompted; when no code was supplied the user is prompted once before the
\* request and the request carries what was entered. A prompt is made only
\* before such a request.
C34_OneTimeCodePerAttempt ==
    [][/\ (EndCallStep /\ mfaResp.AuthMethodID \in OneTimeCodeMethods) =>
             IF creds.MFAToken # ""
             THEN /\ prompts' = prompts
                  /\ AuthDataOf(sent'[1]) = creds.MFAToken
             ELSE /\ Len(prompts') = Len(prompts) + 1
                  /\ SubSeq(prompts', 1, Len(prompts)) = prompts
                  /\ AuthDataOf(sent'[1]) = prompts'[Len(prompts')]
       /\ (prompts' # prompts) =>
             /\ mfaResp.AuthMethodID \in OneTimeCodeMethods
             /\ creds.MFAToken = ""
             /\ pc = "mfa"]_vars

\* three end-challenge requests were made for one-time-code methods with no
\* supplied code, each after its own prompt, the last carrying the entry
C34_Witness ==
    /\ creds.MFAToken = ""
    /\ endCalls = 3
    /\ Len(prompts) = 3
    /\ prompts[3] = "654321"
    /\ sent[1].tag = "endAuth"
    /\ AuthDataOf(sent[1]) = "654321"

\* a supplied code went out in a second end-challenge request, unprompted
C34_SuppliedCodeUsed ==
    /\ creds.MFAToken # ""
    /\ endCalls = 2
    /\ prompts = <<>>
    /\ sent[1].tag = "endAuth"
    /\ AuthDataOf(sent[1]) = creds.MFAToken

\* C35: an end-challenge request for the push-notification method carries
\* no additional auth data and is made without a prompt; the user-facing
\* hint (the number match when the entropy is nonzero, else the generic
\* approval notice) is emitted before the first end-challenge call of the
\* exchange and at no other time, so at most one hint is ever emitted.
C35_PushHintOnceBeforeFirstPoll ==
    [][/\ (EndCallStep /\ mfaResp.AuthMethodID = MFAPhoneAppNotification) =>
             /\ AuthDataOf(sent'[1]) = ""
             /\ prompts' = prompts
             /\ IF mfaIter = 0
                THEN /\ hints = <<>>
                     /\ hints' = <<IF mfaResp.Entropy = 0 THEN "approval required"
                                   ELSE "number match">>
                ELSE /\ hints' = hints
                     /\ Len(hints) <= 1
       /\ (hints' # hints) =>
             /\ EndCallStep
             /\ endCalls = 0
             /\ mfaResp.AuthMethodID = MFAPhoneAppNotification]_vars

\* a push exchange was polled three times and its one hint, the number
\* match, is still the only one
C35_Witness ==
    /\ endCalls = 3
    /\ mfaIter = 2
    /\ hints = <<"number match">>
    /\ prompts = <<>>
    /\ sent[1].tag = "endAuth"
    /\ <<"AuthMethodId", MFAPhoneAppNotification>> \in sent[1].body
    /\ AuthDataOf(sent[1]) = ""

\* the three fields of the ADFS form that carry the caller's sign-in
OverlayNames == {"UserName", "Password", "AuthMethod"}
\* the fields extracted from an ADFS page that are not overlaid
KeptFields(form) ==
    {pr \in parseFormData(Page({}, NoConfig, form, <<>>)).values : pr[1] \notin OverlayNames}

\* the request r goes to the action URL of the ADFS page `form`; the pages
\* of FedForms have different action URLs, so r names its page
PostsTo(r, form) ==
    form.present /\ form.action # NoURL /\ r.url = fullURL(form.action)

\* C36: the form posted after a federation redirect goes to the action URL
\* extracted from the ADFS page and contains every field extracted from
\* that page with its value unchanged, except that UserName, Password and
\* AuthMethod are the caller's username, the caller's password and
\* FormsAuthentication; nothing else is dropped, added or altered.
C36_ADFSFormKeepsOtherFields ==
    \A i \in 1..Len(sent) :
        sent[i].tag = "adfsLogin" =>
            /\ sent[i].method = "POST"
            /\ \E form \in FedForms : PostsTo(sent[i], form)
            /\ \A form \in FedForms :
                  PostsTo(sent[i], form) =>
                      sent[i].body = KeptFields(form)
                                     \cup {<<"UserName", creds.Username>>,
                                           <<"Password", creds.Password>>,
                                           <<"AuthMethod", "FormsAuthentication">>}

\* an ADFS page with a hidden relay field and an empty user name field was
\* answered: the relay field went out as it was, the user name overlaid
C36_Witness ==
    /\ Len(sent) = 3
    /\ sent[3].tag = "adfsLogin"
    /\ <<"RelayState", "rs">> \in sent[3].body
    /\ <<"UserName", creds.Username>> \in sent[3].body
    /\ <<"UserName", "">> \notin sent[3].body
    /\ Cardinality(sent[3].body) = 4

\* C37: the KmsiInterrupt handler sends exactly one request: a POST to the
\* interstitial's post-back URL carrying the interstitial's own flow token
\* and context and LoginOptions=1 (do not keep me signed in), with
\* redirect-following disabled; the response the loop reads next is the
\* response to that request, and a failure of it ends the flow.
C37_KmsiSinglePostUnfollowed ==
    (handler = "KmsiInterrupt" /\ snap.cfg.state = "ok") =>
        /\ Len(sent) = 1
        /\ sent[1].tag = "kmsi"
        /\ sent[1].method = "POST"
        /\ sent[1].url = fullURL(snap.cfg.URLPost)
        /\ sent[1].body = {<<snap.cfg.SFTName, snap.cfg.SFT>>,
                           <<"ctx", snap.cfg.SCtx>>,
                           <<"LoginOptions", "1">>}
        /\ sent[1].follow = DisableFollowRedirect
        /\ pc \in {"read", "done"}
        /\ (pc = "read") => (res = "net" /\ netErr = NoReq /\ out = NoResult)
        /\ (pc = "done") => (netErr = sent[1] /\ out.assertion = "")

\* a second-pass interstitial was answered and its response is about to be
\* read
C37_Witness ==
    /\ handler = "KmsiInterrupt"
    /\ snap.cfg.state = "ok"
    /\ passes = 2
    /\ pc = "read"
    /\ res = "net"
    /\ Len(sent) = 1
    /\ sent[1].follow = DisableFollowRedirect
    /\ <<"LoginOptions", "1">> \in sent[1].body

\* the tokens and the URL ids a Session Context issues
ContextTokens(cfg) ==
    {cfg.SFT, cfg.SCtx, cfg.Canary, cfg.APICanary, cfg.SessionID, cfg.SPOSTUsername}
ContextURLIds(cfg) ==
    {cfg.URLPost.id, cfg.URLGetCredentialType.id, cfg.URLBeginAuth.id, cfg.URLEndAuth.id}
\* one Session Context of each page generation
AnyContexts == {Config(g, "", "abs", NoURL, <<>>, {}) : g \in 1..2}

\* C38: every request of the current pass takes its Session Context tokens
\* and endpoint URLs from the context of the snapshot the handler was given:
\* a request carries no token and goes to no endpoint that only another
\* page's context issued. (The tokens of the MFA exchange state are those
\* of the latest answer, C30.)
C38_OneCurrentContext ==
    \A i \in 1..Len(sent) :
        /\ \A pr \in sent[i].body :
              (\E c \in AnyContexts : pr[2] \in ContextTokens(c))
                  => (snap.cfg.state = "ok" /\ pr[2] \in ContextTokens(snap.cfg))
        /\ (\E c \in AnyContexts : sent[i].url.id \in ContextURLIds(c))
              => (snap.cfg.state = "ok" /\ sent[i].url.id \in ContextURLIds(snap.cfg))

\* the second pass was given a page of the second generation after an
\* earlier page was handled, and its login post carries that page's tokens
C38_Witness ==
    /\ passes = 2
    /\ trail # <<>>
    /\ snap.cfg.state = "ok"
    /\ snap.cfg.SFT = "ft2"
    /\ Len(sent) = 2
    /\ sent[2].tag = "login"
    /\ <<"flowToken", "ft2">> \in sent[2].body
    /\ <<"ctx", "ctx2">> \in sent[2].body
    /\ sent[2].url.id = "post2"

\* the value the form of request r carries under name n; "" without one
FormValue(r, n) ==
    IF \E pr \in r.body : pr[1] = n
    THEN (CHOOSE pr \in r.body : pr[1] = n)[2]
    ELSE ""

\* C39: the completion form is posted to the TFA page's post-back URL after
\* a successful end answer, and carries five fields: the method id, the
\* context and the flow token of that final answer, and the TFA page's
\* canary and username.
C39_CompletionFormFromFinalState ==
    \A i \in 1..Len(sent) :
        sent[i].tag = "mfaComplete" =>
            /\ mfaResp.Success
            /\ sent[i].method = "POST"
            /\ sent[i].url = snap.cfg.URLPost
            /\ Cardinality(sent[i].body) = 5
            /\ FormValue(sent[i], "mfaAuthMethod") = mfaResp.AuthMethodID
            /\ FormValue(sent[i], "request") = mfaResp.Ctx
            /\ FormValue(sent[i], snap.cfg.SFTName) = mfaResp.FlowToken
            /\ FormValue(sent[i], "canary") = snap.cfg.Canary
            /\ FormValue(sent[i], "login") = snap.cfg.SPOSTUsername

\* the exchange succeeded on its second poll with an answer that issued
\* new tokens, and the completion form carries those
C39_Witness ==
    /\ endCalls = 2
    /\ Len(sent) = 2
    /\ sent[2].tag = "mfaComplete"
    /\ sent[1].tag = "endAuth"
    /\ <<"Ctx", "mfactx1">> \in sent[1].body
    /\ FormValue(sent[2], "request") = "mfactx2"
    /\ FormValue(sent[2], "flowToken") = "mfaft2"
    /\ FormValue(sent[2], "mfaAuthMethod") = MFAPhoneAppNotification
    /\ pc = "read"

\* the stored Profile of every name but n is what it was
OthersKept(n) ==
    \A m \in {"prod", "dev"} \ {n} :
        /\ HasProfile(cli'.cfg, m) = HasProfile(cli.cfg, m)
        /\ HasProfile(cli.cfg, m) => cli'.cfg.Profiles[m] = cli.cfg.Profiles[m]

\* C40: after any sequence of SetProfile and DeleteProfile calls on a new
\* Config, for every name n: HasProfile(n) is true, GetProfile(n) succeeds
\* and ListProfiles contains n exactly when the last call on n that
\* returned without an error was a SetProfile; and DeleteProfile of a name
\* that is not stored returns ErrProfileNotFound and changes nothing, while
\* DeleteProfile of a stored name removes that name only.
C40_ProfileSetConsistent ==
    /\ [](\A n \in {"prod", "dev"} :
             /\ HasProfile(cli.cfg, n) <=> (cli.last[n] = "set")
             /\ (ConfigGetProfile(cli.cfg, n).err = "") <=> (cli.last[n] = "set")
             /\ (n \in ListProfiles(cli.cfg)) <=> (cli.last[n] = "set")
             /\ (ConfigGetProfile(cli.cfg, n).err # "")
                   => ConfigGetProfile(cli.cfg, n).err = "ErrProfileNotFound")
    /\ [][\A n \in {"prod", "dev"} :
             (cli'.result.op = "delete" /\ cli'.result.name = n) =>
                 IF HasProfile(cli.cfg, n)
                 THEN /\ cli'.result.err = ""
                      /\ ~HasProfile(cli'.cfg, n)
                      /\ OthersKept(n)
                      /\ cli'.cfg.Defaults = cli.cfg.Defaults
                 ELSE /\ cli'.result.err = "ErrProfileNotFound"
                      /\ cli'.cfg = cli.cfg
                      /\ cli'.last = cli.last]_vars

\* "prod" was set, deleted, and a second DeleteProfile("prod") was refused
\* while "dev" was set and is still stored
C40_Witness ==
    /\ cli.cmd = "profiles"
    /\ cli.last["prod"] = "delete"
    /\ cli.last["dev"] = "set"
    /\ cli.result = [op |-> "delete", name |-> "prod", err |-> "ErrProfileNotFound"]
    /\ ~HasProfile(cli.cfg, "prod")
    /\ ListProfiles(cli.cfg) = {"dev"}

=============================================================================
